---- MODULE Spec2Model ----
(***************************************************************************)
(* Verification model of predict-otron-9001: the chat service of the       *)
(* inference engine (server.rs, text_generation.rs), the streaming         *)
(* generation runners (gemma_api.rs, llama_api.rs), the embedding model    *)
(* cache (embeddings-engine/lib.rs) and the gateway configuration gate     *)
(* (predict-otron-9000/config.rs, main.rs).                                *)
(*                                                                         *)
(* Each subsystem has its own specification (SpecChat, SpecRun, SpecEmbed, *)
(* SpecGate); the variables of the other subsystems stay in their initial  *)
(* state.                                                                  *)
(***************************************************************************)
EXTENDS Integers, Sequences, FiniteSets, TLC

VARIABLES
    \* ---- chat service (server.rs, text_generation.rs) ----
    which,            \* build_args.which: model family of the pipeline
    tokHasEos,        \* the tokenizer knows "<eos>"
    tokHasEot,        \* the tokenizer knows "<end_of_turn>"
    pc,               \* position of each chat request's handler
    lockHolder,       \* holder of state.text_generation (tokio Mutex), 0 = free
    text_generation,  \* the shared TextGeneration instance
    run,              \* per request: locals of run_with_output
    resp,             \* the HTTP response a handler has just returned
    \* ---- streaming runners (gemma_api.rs, llama_api.rs) ----
    runner,           \* "gemma" (run_gemma_api) or "llama" (run_llama_inference)
    gpc,              \* position of the generation thread
    gen,              \* locals of the generation thread
    chan,             \* every item the thread has passed to tx.send, in order
    txAlive,          \* the thread still owns a Sender
    rxAlive,          \* the caller still owns the Receiver
    \* ---- embedding model cache (embeddings-engine/lib.rs) ----
    MODEL_CACHE,      \* EmbeddingModel -> instance, 0 = no entry
    rwReaders,        \* callers holding the RwLock for reading
    rwWriter,         \* caller holding the RwLock for writing, 0 = none
    epc,              \* position of each caller in get_or_create_model
    ecall,            \* per caller: the model asked for and the result returned
    tryNewLog,        \* per model: outcome of every TextEmbedding::try_new call
    \* ---- gateway start-up (predict-otron-9000 config.rs, main.rs) ----
    env,              \* SERVER_CONFIG, SERVER_HOST, SERVER_PORT of the process
    mpc,              \* position of main
    server_config,    \* ServerConfig::from_env()
    service_router,   \* the router main has built: "none", "ha", "standalone"
    listener,         \* the address main has bound, <<>> before
    \* ---- response bodies of the chat handlers (server.rs) ----
    messages,         \* request.messages
    buffer,           \* the text run_with_output left in the buffer
    response,         \* the response body built from them
    \* ---- HighAvailability proxy (predict-otron-9000 ha_mode.rs) ----
    client_request,     \* the request a proxy handler receives
    upstream_request,   \* what the handler sends upstream, <<>> when nothing
    upstream_response,  \* how the upstream answers
    client_response,    \* what the handler returns to the client
    \* ---- embeddings handler (embeddings-engine/lib.rs) ----
    payload,            \* the CreateEmbeddingRequest: model and input
    embeddings,         \* what model.embed returned, one vector per text
    embeddings_result,  \* how embeddings_create ended
    \* ---- forward passes and repeat penalty (text_generation.rs) ----
    pipeline,           \* the TextGeneration instance of AppState
    generation,         \* locals of run_with_output / the runner's loop
    forward,            \* the forward pass of the step just taken, if any
    penalized,          \* the apply_cached_repeat_penalty of the step just taken, if any
    \* ---- decoded fragments of a runner ----
    token_stream,       \* ids sampled, decode buffer, fragments sent
    \* ---- request metrics (predict-otron-9000 middleware/metrics.rs) ----
    endpoints,          \* MetricsStore.endpoints: path -> EndpointMetrics, <<>> = no entry
    recorded            \* per path: the times record was called with, in order

tokVars == <<which, tokHasEos, tokHasEot>>
chatVars == <<pc, lockHolder, text_generation, run, resp>>
runVars == <<runner, gpc, gen, chan, txAlive, rxAlive>>
embedVars == <<MODEL_CACHE, rwReaders, rwWriter, epc, ecall, tryNewLog>>
gateVars == <<env, mpc, server_config, service_router, listener>>

bodyVars == <<messages, buffer, response>>

proxyVars == <<client_request, upstream_request, upstream_response, client_response>>

createVars == <<payload, embeddings, embeddings_result>>

fwdVars == <<pipeline, generation, forward, penalized>>

streamVars == <<token_stream>>

metricsVars == <<endpoints, recorded>>

vars == <<tokVars, chatVars, runVars, embedVars, gateVars, bodyVars, proxyVars, createVars,
          fwdVars, streamVars, metricsVars>>

-----------------------------------------------------------------------------
(* Bounds *)

NumReq == 2        \* concurrent chat requests
NumCallers == 3    \* concurrent callers of get_or_create_model
MaxPrompt == 1     \* prompt length in tokens
MaxTokens == 2     \* largest max_tokens of a request
MaxContent == 3    \* length of a message's content in bytes
MaxText == 11      \* length of a generated text in bytes
MaxBody == 2       \* length of an upstream response body in bytes
MaxInputs == 2     \* number of strings in an embeddings input array
MaxRecords == 3    \* calls of MetricsStore::record
MaxTimeMs == 2     \* largest response time recorded, in milliseconds
LogitsLen == 2     \* length of a logits vector (size of the vocabulary)
RepeatLastN == 2   \* repeat_last_n of the pipeline
MaxContext == 2    \* prompt length in tokens of a generation request
MaxIds == 3        \* number of token ids pushed through a token stream

Req == 1..NumReq

-----------------------------------------------------------------------------
(* Sequence helpers *)

RECURSIVE Concat(_)
Concat(ss) == IF ss = <<>> THEN <<>> ELSE Head(ss) \o Concat(Tail(ss))

SeqsUpTo(S, lo, hi) == UNION {[1..n -> S] : n \in lo..hi}

Last(s) == s[Len(s)]

-----------------------------------------------------------------------------
(* Tokenizer and tokenizer stream (token_output_stream.rs).                *)
(* Text is a sequence of bytes: "a" an alphanumeric ASCII byte, " " a      *)
(* whitespace byte, "H" the lead byte of a two-byte character, "T" its     *)
(* trail byte, "?" the replacement character of a lossy decode.            *)

EOS == 0
EOT == 1
TextTokens == {2, 3, 4}
Vocab == {EOS, EOT} \cup TextTokens

Piece(t) == CASE t = 2 -> <<"a">>
              [] t = 3 -> <<" ">>
              [] t = 4 -> <<"H">>
              [] t = 5 -> <<"T">>
              [] OTHER -> <<>>

\* the accumulated bytes end on a character boundary
Boundary(bytes) == bytes = <<>> \/ Last(bytes) # "H"

\* decode of bytes that are not valid UTF-8: the broken byte becomes "?"
Lossy(bytes) ==
    [i \in 1..Len(bytes) |->
        CASE bytes[i] = "H" /\ (i = Len(bytes) \/ bytes[i + 1] # "T") -> "?"
          [] bytes[i] = "T" /\ (i = 1 \/ bytes[i - 1] # "H") -> "?"
          [] OTHER -> bytes[i]]

\* TokenOutputStream::next_token: <<fragment or <<>>, new buffer>>
NextToken(buf, t) ==
    LET acc == buf \o Piece(t)
    IN IF acc # <<>> /\ Boundary(acc) THEN <<Lossy(acc), <<>>>> ELSE <<<<>>, acc>>

\* TokenOutputStream::decode_rest: the fragment still buffered, or <<>>
DecodeRest(buf) == Lossy(buf)

\* get_token("<eos>"), get_token("<end_of_turn>"): <<>> is None
GetEos == IF tokHasEos THEN <<EOS>> ELSE <<>>
GetEot == IF tokHasEot THEN <<EOT>> ELSE <<>>

-----------------------------------------------------------------------------
(* SSE events of handle_streaming_request *)

None == <<>>
Some(x) == <<x>>

DefaultResponse == <<"Abraham Lincoln was the 16th president of the United States.">>

IsWhitespace(c) == c = " "

\* str::split_whitespace: the maximal runs of non-whitespace bytes
RECURSIVE SplitWhitespace(_, _)
SplitWhitespace(s, word) ==
    IF s = <<>> THEN (IF word = <<>> THEN <<>> ELSE <<word>>)
    ELSE IF IsWhitespace(Head(s))
         THEN (IF word = <<>> THEN <<>> ELSE <<word>>) \o SplitWhitespace(Tail(s), <<>>)
         ELSE SplitWhitespace(Tail(s), Append(word, Head(s)))

\* server.rs 507-515
Chunks(generated_text) ==
    IF generated_text # <<>>
    THEN LET words == SplitWhitespace(generated_text, <<>>)
         IN [i \in 1..Len(words) |-> words[i] \o <<" ">>]
    ELSE <<DefaultResponse>>

ChunkEvent(role, content, finish_reason) ==
    [data |-> "chunk", role |-> role, content |-> content, finish_reason |-> finish_reason]

DoneEvent == [data |-> "[DONE]", role |-> None, content |-> None, finish_reason |-> None]

\* StreamEvents with the [DONE] push moved inside `if !chunks.is_empty()`
StreamEvents_DoneInsideIf(generated_text) ==
    LET chunks == Chunks(generated_text)
    IN IF chunks # <<>>
       THEN <<ChunkEvent(Some("assistant"), Some(chunks[1]), None)>>
            \o [i \in 1..(Len(chunks) - 1) |-> ChunkEvent(None, Some(chunks[i + 1]), None)]
            \o <<ChunkEvent(None, None, Some("stop")), DoneEvent>>
       ELSE <<>>

\* server.rs 517-586
StreamEvents(generated_text) ==
    LET chunks == Chunks(generated_text)
        body == IF chunks # <<>>
                THEN <<ChunkEvent(Some("assistant"), Some(chunks[1]), None)>>
                     \o [i \in 1..(Len(chunks) - 1) |->
                            ChunkEvent(None, Some(chunks[i + 1]), None)]
                     \o <<ChunkEvent(None, None, Some("stop"))>>
                ELSE <<>>
    IN body \o <<DoneEvent>>

-----------------------------------------------------------------------------
(* TextGeneration::run_with_output (text_generation.rs 437-631)            *)

\* written at line 478 when "<end_of_turn>" is missing (words and blanks)
EotWarning ==
    <<"Warning:", " ", "<end_of_turn>", " ", "token", " ", "not", " ", "found", " ",
      "in", " ", "tokenizer,", " ", "using", " ", "<eos>", " ", "as", " ", "a", " ",
      "backup">>

\* Model::V2 | Model::V3 (lines 485-489)
NeedsSpecialHandling == which \in {"V2", "V3"}

\* one write!(output, ..) of a fragment; src records which statement wrote it
Write(out, src, frag) == IF frag = <<>> THEN out ELSE Append(out, [src |-> src, text |-> frag])

\* lines 462-467: every prompt token goes through next_token and its
\* fragment is written to the output; <<output, stream buffer>>
RECURSIVE WritePrompt(_, _, _)
WritePrompt(out, buf, prompt) ==
    IF prompt = <<>> THEN <<out, buf>>
    ELSE LET nt == NextToken(buf, Head(prompt))
         IN WritePrompt(Write(out, "prompt", nt[1]), nt[2], Tail(prompt))

\* lines 475-481
WriteEotWarning(out) == IF GetEot = None THEN Write(out, "diag", EotWarning) ELSE out

\* eot_token falls back to eos_token (line 479)
IsStopToken_EosOnly(t) == t = EOS

IsStopToken(t) == t = EOS \/ (IF GetEot = None THEN t = EOS ELSE t = EOT)

\* lines 613-619 run after the loop; the V2/V3 branch returns at 567 before
FinalOutput(out, buf) ==
    IF NeedsSpecialHandling THEN out ELSE Write(out, "rest", DecodeRest(buf))

\* String::from_utf8(buffer): the bytes written, in order
Text(out) == Concat([i \in 1..Len(out) |-> out[i].text])

-----------------------------------------------------------------------------
(* Chat handlers (server.rs 334-417, 430-593)                              *)

OtherThanChat == <<runVars, embedVars, gateVars, bodyVars, proxyVars, createVars, fwdVars, streamVars, metricsVars>>

NoRun == [stream |-> FALSE, model |-> "", out |-> <<>>, buf |-> <<>>, ntokens |-> 0,
          index |-> 0, sample_len |-> 0, stopped |-> FALSE]

\* a response; `output` is the buffer run_with_output filled, kept beside the
\* body that was built from it
NoResp == [kind |-> "none", req |-> 0, status |-> 0, events |-> <<>>, completion |-> <<>>,
           output |-> <<>>, error_type |-> ""]

ErrorResp(r, status) ==
    [kind |-> "error", req |-> r, status |-> status, events |-> <<>>, completion |-> <<>>,
     output |-> <<>>, error_type |-> "text_generation_error"]

\* lines 390-416 and 588-592
OkResp(r, stream, out) ==
    IF stream
    THEN [kind |-> "sse", req |-> r, status |-> 200,
          events |-> StreamEvents(Text(out)), completion |-> <<>>, output |-> out,
          error_type |-> ""]
    ELSE [kind |-> "json", req |-> r, status |-> 200,
          events |-> <<>>, completion |-> Text(out), output |-> out,
          error_type |-> ""]

\* the ids of list_models (596-705), and an id that is none of them
SupportedModels == {"gemma-3-1b-it"}
ModelIds == SupportedModels \cup {"gpt-5-ultra"}

\* build_pipeline (141-315): a TextGeneration nobody has generated on
FreshPipeline(r) == [builtBy |-> r, usedBy |-> {}]

\* a lock that does not exclude
LockFree_NoExclusion == TRUE

\* Mutex::lock().await returns only when nobody holds the guard
LockFree == lockHolder = 0

\* a forward pass / sampling step of request r on the shared instance
Touch(r) == [text_generation EXCEPT !.usedBy = @ \cup {r}]

\* no chat request has arrived
ChatQuiet ==
    /\ pc = [r \in Req |-> "idle"]
    /\ lockHolder = 0
    /\ text_generation = FreshPipeline(0)
    /\ run = [r \in Req |-> NoRun]
    /\ resp = NoResp

ChatOnly == UNCHANGED <<tokVars, OtherThanChat>>

\* the handler up to the lock: prompt assembly and build_pipeline (336-365, 443-468)
ReceiveModel(r, models) ==
    /\ pc[r] = "idle"
    /\ \E stream \in BOOLEAN, model \in models :
          run' = [run EXCEPT ![r] = [NoRun EXCEPT !.stream = stream, !.model = model]]
    /\ pc' = [pc EXCEPT ![r] = "built"]
    /\ resp' = NoResp
    /\ UNCHANGED <<lockHolder, text_generation>>
    /\ ChatOnly

\* a request that names a model of list_models
Receive(r) == ReceiveModel(r, SupportedModels)

\* a request that names any model
ReceiveAny(r) == ReceiveModel(r, ModelIds)

\* lock().await and *text_gen = fresh_text_gen (366-367, 469-470)
Lock(r) ==
    /\ pc[r] = "built"
    /\ LockFree
    /\ lockHolder' = r
    /\ text_generation' = FreshPipeline(r)
    /\ pc' = [pc EXCEPT ![r] = "locked"]
    /\ resp' = NoResp
    /\ UNCHANGED run
    /\ ChatOnly

\* the guard is dropped when the block is left (388, 485), also by `return Err`
Unlock(r) == IF lockHolder = r THEN 0 ELSE lockHolder

\* run_with_output returned Err: 400 text_generation_error (373-383, 474-484)
Fail(r) ==
    /\ lockHolder' = Unlock(r)
    /\ pc' = [pc EXCEPT ![r] = "done"]
    /\ run' = [run EXCEPT ![r] = NoRun]
    /\ resp' = ErrorResp(r, 400)

\* run_with_output up to the generation loop (443-517)
RunStart(r) ==
    /\ pc[r] = "locked"
    /\ \E prompt \in SeqsUpTo(TextTokens, 1, MaxPrompt), max_tokens \in 0..MaxTokens,
          ok \in BOOLEAN :
          LET wp == WritePrompt(<<>>, <<>>, prompt)
          IN IF GetEos = None
             THEN Fail(r) /\ UNCHANGED text_generation
             ELSE IF NeedsSpecialHandling /\ ~ok
             THEN Fail(r) /\ text_generation' = Touch(r)
             ELSE /\ run' = [run EXCEPT ![r] =
                                [@ EXCEPT !.out = WriteEotWarning(wp[1]), !.buf = wp[2],
                                          !.ntokens = Len(prompt), !.index = 0,
                                          !.sample_len = max_tokens, !.stopped = FALSE]]
                  /\ text_generation' =
                        IF NeedsSpecialHandling THEN Touch(r) ELSE text_generation
                  /\ pc' = [pc EXCEPT ![r] = "running"]
                  /\ resp' = NoResp
                  /\ UNCHANGED lockHolder
    /\ ChatOnly

\* one iteration of the generation loop (519-556, 573-609)
GenStep(r) ==
    /\ pc[r] = "running"
    /\ ~run[r].stopped
    /\ run[r].index < run[r].sample_len
    /\ text_generation' = Touch(r)
    /\ \E next_token \in Vocab, ok \in BOOLEAN :
          IF ~ok
          THEN Fail(r)
          ELSE LET nt == NextToken(run[r].buf, next_token)
                   stop == IsStopToken(next_token)
               IN /\ run' = [run EXCEPT ![r] =
                                [@ EXCEPT !.ntokens = @ + 1,
                                          !.index = @ + 1,
                                          !.stopped = stop,
                                          !.out = IF stop THEN @ ELSE Write(@, "gen", nt[1]),
                                          !.buf = IF stop THEN @ ELSE nt[2]]]
                  /\ UNCHANGED <<pc, lockHolder>>
                  /\ resp' = NoResp
    /\ ChatOnly

\* the loop is over: run_with_output returns Ok, the guard is dropped and the
\* response is built (558-567, 611-630; 385-416, 487-592)
Finish(r) ==
    /\ pc[r] = "running"
    /\ run[r].stopped \/ run[r].index = run[r].sample_len
    /\ resp' = OkResp(r, run[r].stream, FinalOutput(run[r].out, run[r].buf))
    /\ lockHolder' = Unlock(r)
    /\ pc' = [pc EXCEPT ![r] = "done"]
    /\ run' = [run EXCEPT ![r] = NoRun]
    /\ UNCHANGED text_generation
    /\ ChatOnly

NextChat == \E r \in Req : Receive(r) \/ Lock(r) \/ RunStart(r) \/ GenStep(r) \/ Finish(r)

NextChatAny ==
    \E r \in Req : ReceiveAny(r) \/ Lock(r) \/ RunStart(r) \/ GenStep(r) \/ Finish(r)

-----------------------------------------------------------------------------
(* Streaming runners: the generation thread of run_gemma_api               *)
(* (gemma_api.rs 169-249, 434-446) and of run_llama_inference              *)
(* (llama_api.rs 218-353), and the channel to the caller                   *)

OtherThanRun == <<chatVars, embedVars, gateVars, bodyVars, proxyVars, createVars, fwdVars, streamVars, metricsVars>>
RunOnly == UNCHANGED <<tokVars, OtherThanRun>>

NoGen == [sample_len |-> 0, index |-> 0, sampled |-> 0, ntokens |-> 0, buf |-> <<>>,
          errored |-> FALSE, last |-> None]

OkItem(frag) == [ok |-> TRUE, text |-> frag, delivered |-> rxAlive]
ErrItem == [ok |-> FALSE, text |-> <<>>, delivered |-> rxAlive]

\* tx.send(item): fails, and delivers nothing, once the Receiver is dropped
Send(ch, item) == Append(ch, item)
SendFrag(ch, frag) == IF frag = <<>> THEN ch ELSE Send(ch, OkItem(frag))

\* `for index in 0..sample_len` (gemma_api.rs 208, llama_api.rs 254)
LoopContinues_OffByOne(index, sample_len) == index <= sample_len

LoopContinues(index, sample_len) == index < sample_len

\* where the thread goes after it has sent Err: `break` / return, then the
\* closure ends and tx is dropped (gemma_api.rs 440-443, llama_api.rs 266-267)
AfterError_KeepsGoing == "loop"

AfterError == "done"

\* tokenizer.decode(&[next_token], false) of llama_api.rs 327
LlamaDecode(t) == Lossy(Piece(t))

\* llama_api.rs 317-321: eos_token_id is None when the tokenizer has no EOS
LlamaStop(t) == GetEos # None /\ t = EOS

\* the prompt tokens warm the stream and their fragments are dropped
\* (gemma_api.rs 188-190): the stream buffer afterwards
RECURSIVE WarmStream(_, _)
WarmStream(buf, prompt) ==
    IF prompt = <<>> THEN buf ELSE WarmStream(NextToken(buf, Head(prompt))[2], Tail(prompt))

RunQuiet ==
    /\ gpc = "idle"
    /\ gen = NoGen
    /\ chan = <<>>
    /\ txAlive = FALSE
    /\ rxAlive = FALSE

\* the thread's error exit: Err is sent and the thread goes to AfterError
ErrorExit ==
    /\ chan' = Send(chan, ErrItem)
    /\ gpc' = AfterError
    /\ txAlive' = (AfterError # "done")

\* the channel is created and the thread spawned (gemma_api.rs 435-440,
\* llama_api.rs 246-249); gemma: run_stream up to its loop (175-204)
Spawn ==
    /\ gpc = "idle"
    /\ rxAlive' = TRUE
    /\ \E prompt \in SeqsUpTo(TextTokens, 1, MaxPrompt), max_tokens \in 0..MaxTokens,
          ok \in BOOLEAN :
          LET g == [NoGen EXCEPT !.sample_len = max_tokens, !.ntokens = Len(prompt)]
          IN IF runner = "gemma" /\ (~ok \/ GetEos = None)
             THEN /\ gen' = [g EXCEPT !.errored = TRUE]
                  /\ chan' = Append(chan, [ok |-> FALSE, text |-> <<>>, delivered |-> TRUE])
                  /\ gpc' = "done"
                  /\ txAlive' = FALSE
             ELSE /\ gen' = [g EXCEPT !.buf = IF runner = "gemma"
                                                THEN WarmStream(<<>>, prompt) ELSE <<>>]
                  /\ chan' = chan
                  /\ gpc' = "loop"
                  /\ txAlive' = TRUE
    /\ UNCHANGED runner
    /\ RunOnly

\* one loop iteration (gemma_api.rs 208-239, llama_api.rs 254-341)
Step ==
    /\ gpc = "loop"
    /\ LoopContinues(gen.index, gen.sample_len)
    /\ \E next_token \in Vocab, outcome \in {"ok", "forward_err", "decode_err"} :
          CASE outcome = "forward_err" ->
                  \* tensor, forward, penalty or sampler error before the token is pushed
                  /\ gen' = [gen EXCEPT !.errored = TRUE]
                  /\ ErrorExit
            [] outcome = "decode_err" ->
                  \* next_token / decode error after the token is pushed
                  /\ ~(IF runner = "gemma" THEN IsStopToken(next_token)
                                           ELSE LlamaStop(next_token))
                  /\ gen' = [gen EXCEPT !.errored = TRUE, !.sampled = @ + 1,
                                        !.ntokens = @ + 1, !.index = @ + 1,
                                        !.last = Some(next_token)]
                  /\ ErrorExit
            [] outcome = "ok" /\ runner = "gemma" ->
                  LET nt == NextToken(gen.buf, next_token)
                      stop == IsStopToken(next_token)
                  IN /\ gen' = [gen EXCEPT !.sampled = @ + 1, !.ntokens = @ + 1,
                                           !.index = @ + 1,
                                           !.last = Some(next_token),
                                           !.buf = IF stop THEN @ ELSE nt[2]]
                     /\ chan' = IF stop THEN chan ELSE SendFrag(chan, nt[1])
                     /\ gpc' = IF stop THEN "flush" ELSE "loop"
                     /\ txAlive' = txAlive
            [] outcome = "ok" /\ runner = "llama" ->
                  LET text == LlamaDecode(next_token)
                      stop == LlamaStop(next_token)
                      sendFails == ~stop /\ text # <<>> /\ ~rxAlive
                  IN /\ gen' = [gen EXCEPT !.sampled = @ + 1, !.ntokens = @ + 1,
                                           !.index = @ + 1,
                                           !.last = Some(next_token)]
                     /\ chan' = IF stop THEN chan ELSE SendFrag(chan, text)
                     /\ gpc' = IF stop \/ sendFails THEN "done" ELSE "loop"
                     /\ txAlive' = ~(stop \/ sendFails)
    /\ UNCHANGED <<runner, rxAlive>>
    /\ RunOnly

\* the range is exhausted: gemma goes on to the flush, llama's closure ends
LoopExit ==
    /\ gpc = "loop"
    /\ ~LoopContinues(gen.index, gen.sample_len)
    /\ gpc' = IF runner = "gemma" THEN "flush" ELSE "done"
    /\ txAlive' = (runner = "gemma")
    /\ UNCHANGED <<runner, gen, chan, rxAlive>>
    /\ RunOnly

\* gemma_api.rs 243-248, then the closure ends and tx is dropped (443)
Flush ==
    /\ gpc = "flush"
    /\ \E ok \in BOOLEAN :
          IF ~ok
          THEN /\ gen' = [gen EXCEPT !.errored = TRUE]
               /\ chan' = Send(chan, ErrItem)
          ELSE /\ gen' = [gen EXCEPT !.buf = <<>>]
               /\ chan' = SendFrag(chan, DecodeRest(gen.buf))
    /\ gpc' = "done"
    /\ txAlive' = FALSE
    /\ UNCHANGED <<runner, rxAlive>>
    /\ RunOnly

\* the caller drops the Receiver (client disconnect)
DropReceiver ==
    /\ gpc # "idle"
    /\ rxAlive
    /\ rxAlive' = FALSE
    /\ UNCHANGED <<runner, gpc, gen, chan, txAlive>>
    /\ RunOnly

ThreadNext == Spawn \/ Step \/ LoopExit \/ Flush

NextRun == ThreadNext \/ DropReceiver

-----------------------------------------------------------------------------
(* Embedding model cache: get_or_create_model (embeddings-engine/lib.rs    *)
(* 17-18, 155-196)                                                         *)

OtherThanEmbed == <<tokVars, chatVars, runVars, gateVars, bodyVars, proxyVars, createVars, fwdVars, streamVars, metricsVars>>
EmbedOnly == UNCHANGED OtherThanEmbed

Caller == 1..NumCallers
EmbeddingModel == {"AllMiniLML6V2", "NomicEmbedTextV15"}

\* `via` records the statement that returned
NoCall == [model |-> "", result |-> "none", instance |-> 0, via |-> "none"]

EmbedQuiet ==
    /\ MODEL_CACHE = [m \in EmbeddingModel |-> 0]
    /\ rwReaders = {}
    /\ rwWriter = 0
    /\ epc = [c \in Caller |-> "idle"]
    /\ ecall = [c \in Caller |-> NoCall]
    /\ tryNewLog = [m \in EmbeddingModel |-> <<>>]

\* RwLock::read / RwLock::write may be granted
CanRead == rwWriter = 0
CanWrite == rwWriter = 0 /\ rwReaders = {}

\* the double-check that skips the re-check after the write lock is taken
CachedUnderWrite_NoDoubleCheck(m) == FALSE

\* lines 173-176: cache.get(&embedding_model) under the write lock
CachedUnderWrite(m) == MODEL_CACHE[m] # 0

Return(c, via, result, instance) ==
    /\ ecall' = [ecall EXCEPT ![c].result = result, ![c].instance = instance,
                              ![c].via = via]
    /\ epc' = [epc EXCEPT ![c] = "done"]

\* embeddings_create calls get_or_create_model; MODEL_CACHE.read() (158-160)
ReadLock(c) ==
    /\ epc[c] = "idle"
    /\ CanRead
    /\ \E m \in EmbeddingModel : ecall' = [ecall EXCEPT ![c] = [NoCall EXCEPT !.model = m]]
    /\ rwReaders' = rwReaders \cup {c}
    /\ epc' = [epc EXCEPT ![c] = "reading"]
    /\ UNCHANGED <<MODEL_CACHE, rwWriter, tryNewLog>>
    /\ EmbedOnly

\* lines 161-165: the fast path; the read guard is dropped at the block's end
ReadCheck(c) ==
    /\ epc[c] = "reading"
    /\ rwReaders' = rwReaders \ {c}
    /\ IF MODEL_CACHE[ecall[c].model] # 0
       THEN Return(c, "read", "ok", MODEL_CACHE[ecall[c].model])
       ELSE /\ epc' = [epc EXCEPT ![c] = "want_write"]
            /\ ecall' = ecall
    /\ UNCHANGED <<MODEL_CACHE, rwWriter, tryNewLog>>
    /\ EmbedOnly

\* lines 168-170: MODEL_CACHE.write()
WriteLock(c) ==
    /\ epc[c] = "want_write"
    /\ CanWrite
    /\ rwWriter' = c
    /\ epc' = [epc EXCEPT ![c] = "writing"]
    /\ UNCHANGED <<MODEL_CACHE, rwReaders, ecall, tryNewLog>>
    /\ EmbedOnly

\* lines 172-176: the double-check; a hit returns and drops the write guard
DoubleCheck(c) ==
    /\ epc[c] = "writing"
    /\ IF CachedUnderWrite(ecall[c].model)
       THEN /\ Return(c, "double_check", "ok", MODEL_CACHE[ecall[c].model])
            /\ rwWriter' = 0
       ELSE /\ epc' = [epc EXCEPT ![c] = "creating"]
            /\ UNCHANGED <<ecall, rwWriter>>
    /\ UNCHANGED <<MODEL_CACHE, rwReaders, tryNewLog>>
    /\ EmbedOnly

\* lines 181-195: TextEmbedding::try_new, then insert; Err inserts nothing.
\* The new instance is named after the caller that constructed it.
Create(c) ==
    /\ epc[c] = "creating"
    /\ \E ok \in BOOLEAN :
          LET m == ecall[c].model
          IN /\ tryNewLog' = [tryNewLog EXCEPT ![m] = Append(@, ok)]
             /\ IF ok
                THEN /\ MODEL_CACHE' = [MODEL_CACHE EXCEPT ![m] = c]
                     /\ Return(c, "created", "ok", c)
                ELSE /\ MODEL_CACHE' = MODEL_CACHE
                     /\ Return(c, "created", "err", 0)
    /\ rwWriter' = 0
    /\ UNCHANGED rwReaders
    /\ EmbedOnly

NextEmbed ==
    \E c \in Caller : ReadLock(c) \/ ReadCheck(c) \/ WriteLock(c) \/ DoubleCheck(c) \/ Create(c)

-----------------------------------------------------------------------------
(* Gateway start-up: ServerConfig (config.rs 11-133) and main (main.rs     *)
(* 82-150)                                                                 *)

OtherThanGate == <<tokVars, chatVars, runVars, embedVars, bodyVars, proxyVars, createVars, fwdVars, streamVars, metricsVars>>
GateOnly == UNCHANGED OtherThanGate

ServerMode == {"Standalone", "HighAvailability"}

\* Option<String> of a service URL
UrlOption(url) == {None, Some(url)}

\* Option<Services>
ServicesOption ==
    {None} \cup
    {Some([inference_url |-> i, embeddings_url |-> e]) :
        i \in UrlOption("http://inference:8080"), e \in UrlOption("http://embeddings:8080")}

ServerConfig ==
    [server_host : {"127.0.0.1"}, server_port : {8080},
     server_mode : ServerMode, services : ServicesOption]

\* impl Default for ServerConfig (50-59)
DefaultConfig ==
    [server_host |-> "127.0.0.1", server_port |-> 8080, server_mode |-> "Standalone",
     services |-> Some([inference_url |-> None, embeddings_url |-> None])]

\* SERVER_CONFIG: unset, not parseable, or the JSON of a ServerConfig
EnvConfig ==
    {[state |-> st, config |-> DefaultConfig] : st \in {"unset", "invalid"}}
    \cup {[state |-> "json", config |-> c] : c \in ServerConfig}

Env == [SERVER_CONFIG : EnvConfig, SERVER_HOST : {None, Some("0.0.0.0")},
        SERVER_PORT : {None, Some("9090"), Some("x")}]

DefaultEnv ==
    [SERVER_CONFIG |-> [state |-> "unset", config |-> DefaultConfig],
     SERVER_HOST |-> None, SERVER_PORT |-> None]

\* v.parse::<u16>() of main.rs 133: <<>> is Err
ParsePort(v) == IF v = "9090" THEN Some(9090) ELSE None

\* ServerConfig::from_env (64-84)
FromEnv(e) ==
    IF e.SERVER_CONFIG.state = "json" THEN e.SERVER_CONFIG.config ELSE DefaultConfig

\* is_high_availability that tests the inference URL only
IsHighAvailability_InferenceOnly(config) ==
    IF config.server_mode = "HighAvailability"
    THEN LET services_well_defined == config.services # None
             inference_url_well_defined ==
                 services_well_defined /\ config.services[1].inference_url # None
         IN IF ~inference_url_well_defined THEN "Err" ELSE "Ok(true)"
    ELSE "Ok(false)"

\* ServerConfig::is_high_availability (87-114)
IsHighAvailability(config) ==
    IF config.server_mode = "HighAvailability"
    THEN LET services_well_defined == config.services # None
             inference_url_well_defined ==
                 services_well_defined /\ config.services[1].inference_url # None
             embeddings_well_defined ==
                 services_well_defined /\ config.services[1].embeddings_url # None
             is_well_defined_for_ha ==
                 services_well_defined /\ inference_url_well_defined
                 /\ embeddings_well_defined
         IN IF ~is_well_defined_for_ha THEN "Err" ELSE "Ok(true)"
    ELSE "Ok(false)"

\* ServerConfig::inference_url (117-123)
InferenceUrl(config) ==
    IF config.services # None THEN config.services[1].inference_url ELSE None

\* ServerConfig::embeddings_url (126-132)
EmbeddingsUrl(config) ==
    IF config.services # None THEN config.services[1].embeddings_url ELSE None

GateQuiet ==
    /\ mpc = "boot"
    /\ server_config = DefaultConfig
    /\ service_router = "none"
    /\ listener = <<>>

\* main.rs 83: ServerConfig::from_env()
LoadConfig ==
    /\ mpc = "boot"
    /\ server_config' = FromEnv(env)
    /\ mpc' = "loaded"
    /\ UNCHANGED <<env, service_router, listener>>
    /\ GateOnly

\* main.rs 89-102: the router is chosen, or main panics
BuildRouter ==
    /\ mpc = "loaded"
    /\ LET is_ha == IsHighAvailability(server_config)
       IN /\ mpc' = IF is_ha = "Err" THEN "panicked" ELSE "routed"
          /\ service_router' = CASE is_ha = "Ok(true)" -> "ha"
                                 [] is_ha = "Ok(false)" -> "standalone"
                                 [] OTHER -> "none"
    /\ UNCHANGED <<env, server_config, listener>>
    /\ GateOnly

\* main.rs 130-138: host and port, then TcpListener::bind
Bind ==
    /\ mpc = "routed"
    /\ LET server_host == IF env.SERVER_HOST = None THEN server_config.server_host
                          ELSE env.SERVER_HOST[1]
           server_port == IF env.SERVER_PORT = None \/ ParsePort(env.SERVER_PORT[1]) = None
                          THEN server_config.server_port
                          ELSE ParsePort(env.SERVER_PORT[1])[1]
       IN listener' = <<server_host, server_port>>
    /\ mpc' = "serving"
    /\ UNCHANGED <<env, server_config, service_router>>
    /\ GateOnly

NextGate == LoadConfig \/ BuildRouter \/ Bind


-----------------------------------------------------------------------------
(* Response bodies of the chat handlers: prompt assembly (server.rs        *)
(* 336-357, 441-462), usage (409-414) and the SSE events (507-586), for    *)
(* request messages and generated texts of any content                     *)

OtherThanBody == <<tokVars, chatVars, runVars, embedVars, gateVars, proxyVars, createVars, fwdVars, streamVars, metricsVars>>

Roles == {"system", "user", "assistant", "tool"}

\* the label the prompt gives a role, with ": " (lines 349-354)
RoleLabel(role) ==
    CASE role = "system"    -> <<"S", "y", "s", "t", "e", "m", ":", " ">>
      [] role = "user"      -> <<"U", "s", "e", "r", ":", " ">>
      [] role = "assistant" -> <<"A", "s", "s", "i", "s", "t", "a", "n", "t", ":", " ">>
      [] OTHER              -> <<"t", "o", "o", "l", ":", " ">>

Message == [role : Roles, content : SeqsUpTo({"a"}, 0, MaxContent)]

RECURSIVE BuildPrompt(_)
BuildPrompt(msgs) ==
    IF msgs = <<>> THEN RoleLabel("assistant")
    ELSE RoleLabel(Head(msgs).role) \o Head(msgs).content \o <<"\n">>
         \o BuildPrompt(Tail(msgs))

\* lines 409-414
Usage(prompt, completion) ==
    [prompt_tokens |-> Len(prompt) \div 4,
     completion_tokens |-> Len(completion) \div 4,
     total_tokens |-> (Len(prompt) + Len(completion)) \div 4]

NoBody == [kind |-> "none", usage |-> Usage(<<>>, <<>>), events |-> <<>>]

BodyQuiet ==
    /\ messages = <<>>
    /\ buffer = <<>>
    /\ response = NoBody

\* chat_completions_non_streaming_proxy after generation (390-416)
BuildJson ==
    /\ response = NoBody
    /\ response' = [kind |-> "json", usage |-> Usage(BuildPrompt(messages), buffer),
                events |-> <<>>]
    /\ UNCHANGED <<messages, buffer, OtherThanBody>>

\* handle_streaming_request after generation (505-592)
BuildSse ==
    /\ response = NoBody
    /\ response' = [kind |-> "sse", usage |-> Usage(<<>>, <<>>),
                events |-> StreamEvents(buffer)]
    /\ UNCHANGED <<messages, buffer, OtherThanBody>>

NextBody == BuildJson \/ BuildSse

-----------------------------------------------------------------------------
(* HighAvailability proxy (ha_mode.rs 158-389): one handler per route,     *)
(* each forwarding one request to the upstream and its answer back         *)

OtherThanProxy == <<tokVars, chatVars, runVars, embedVars, gateVars, bodyVars, createVars, fwdVars, streamVars, metricsVars>>

Routes == {"chat", "models", "embeddings"}

\* str::to_lowercase on the header names that occur
ToLowercase(name) ==
    CASE name = "Host"    -> "host"
      [] name = "UPGRADE" -> "upgrade"
      [] name = "Server"  -> "server"
      [] name = "DATE"    -> "date"
      [] OTHER            -> name

\* should_forward_header comparing the name as it is written
ShouldForwardHeader_CaseSensitive(header_name) ==
    CASE header_name \in {"content-type", "content-length", "authorization", "user-agent",
                          "accept"} -> TRUE
      [] header_name \in {"host", "connection", "upgrade"} -> FALSE
      [] OTHER -> TRUE

\* lines 374-380
ShouldForwardHeader(header_name) ==
    LET n == ToLowercase(header_name)
    IN CASE n \in {"content-type", "content-length", "authorization", "user-agent",
                   "accept"} -> TRUE
         [] n \in {"host", "connection", "upgrade"} -> FALSE
         [] OTHER -> TRUE

\* lines 383-389
ShouldForwardResponseHeader(header_name) ==
    LET n == ToLowercase(header_name)
    IN CASE n \in {"content-type", "content-length", "cache-control", "connection"} -> TRUE
         [] n \in {"server", "date"} -> FALSE
         [] OTHER -> TRUE

\* a header line
Header(name, value) == [name |-> name, value |-> value]

\* the lines of seq whose index is in S, in order
RECURSIVE Pick(_, _, _)
Pick(seq, S, i) ==
    IF i > Len(seq) THEN <<>>
    ELSE (IF i \in S THEN <<seq[i]>> ELSE <<>>) \o Pick(seq, S, i + 1)

\* the request headers sent upstream (lines 203-207), in order
ForwardedRequestHeaders(headers) ==
    Pick(headers, {i \in 1..Len(headers) : ShouldForwardHeader(headers[i].name)}, 1)

\* the upstream's headers returned to the client (lines 214-218), in order
ForwardedResponseHeaders(headers) ==
    Pick(headers, {i \in 1..Len(headers) : ShouldForwardResponseHeader(headers[i].name)}, 1)

\* request headers a client may send
RequestHeaderLines ==
    <<Header("Host", "gateway"), Header("connection", "close"),
      Header("UPGRADE", "websocket"), Header("authorization", "Bearer k")>>

\* response headers an upstream may send
ResponseHeaderLines ==
    <<Header("Server", "hyper"), Header("DATE", "today"),
      Header("content-type", "text/event-stream"), Header("x-trace", "1")>>

\* request bodies: the bytes are UTF-8 or not, parse as JSON or not, and the
\* JSON has "stream" as true, false, a string, or not at all
RequestBodies ==
    {[utf8 |-> TRUE, json |-> TRUE, stream |-> st] :
        st \in {"true", "false", "string", "absent"}}
    \cup {[utf8 |-> TRUE, json |-> FALSE, stream |-> "absent"],
          [utf8 |-> FALSE, json |-> FALSE, stream |-> "absent"]}

NoRequestBody == [utf8 |-> TRUE, json |-> FALSE, stream |-> "absent"]

\* lines 184-194
IsStreaming(body_bytes) ==
    IF body_bytes.utf8
    THEN (IF body_bytes.json THEN body_bytes.stream = "true" ELSE FALSE)
    ELSE FALSE

NoUpstreamResponse ==
    [kind |-> "none", status |-> 0, headers |-> <<>>, bytes |-> <<>>, readable |-> FALSE]

\* what req_builder.send() and response.bytes() can give
UpstreamOutcomes ==
    {[NoUpstreamResponse EXCEPT !.kind = "send_err"]}
    \cup [kind : {"response"}, status : {200, 422, 500},
          headers : {Pick(ResponseHeaderLines, S, 1) : S \in SUBSET (1..Len(ResponseHeaderLines))},
          bytes : SeqsUpTo({"x", "y"}, 0, MaxBody), readable : BOOLEAN]

NoClientResponse == [kind |-> "none", status |-> 0, headers |-> <<>>, bytes |-> <<>>]

\* Err(StatusCode)
StatusOnly(status) == [kind |-> "err", status |-> status, headers |-> <<>>, bytes |-> <<>>]

\* the headers the streaming branch adds (lines 224-227)
StreamingHeaders ==
    <<Header("content-type", "text/plain; charset=utf-8"),
      Header("cache-control", "no-cache"), Header("connection", "keep-alive")>>

\* ClientResponse answering 200 whatever the upstream's status
ClientResponse_AlwaysOk(up, is_streaming) ==
    IF up.kind = "send_err" THEN StatusOnly(502)
    ELSE IF ~up.readable THEN StatusOnly(500)
    ELSE [kind |-> "ok", status |-> 200,
          headers |-> ForwardedResponseHeaders(up.headers)
                      \o (IF is_streaming THEN StreamingHeaders ELSE <<>>),
          bytes |-> up.bytes]

\* the `match req_builder.send().await` of a handler (lines 209-253, 282-305,
\* 346-370)
ClientResponse(up, is_streaming) ==
    IF up.kind = "send_err" THEN StatusOnly(502)
    ELSE IF ~up.readable THEN StatusOnly(500)
    ELSE [kind |-> "ok", status |-> up.status,
          headers |-> ForwardedResponseHeaders(up.headers)
                      \o (IF is_streaming THEN StreamingHeaders ELSE <<>>),
          bytes |-> up.bytes]

ProxyQuiet ==
    /\ client_request = [route |-> "models", headers |-> <<>>, body |-> NoRequestBody,
                         readable |-> TRUE]
    /\ upstream_request = None
    /\ upstream_response = NoUpstreamResponse
    /\ client_response = NoClientResponse

\* a handler with a request body: to_bytes, the forward and the answer
ProxyWithBody(route, peek_stream) ==
    /\ client_request.route = route
    /\ client_response = NoClientResponse
    /\ IF ~client_request.readable
       THEN /\ client_response' = StatusOnly(400)
            /\ UNCHANGED <<upstream_request, upstream_response>>
       ELSE /\ upstream_request' =
                  Some([route |-> route,
                        headers |-> ForwardedRequestHeaders(client_request.headers),
                        body |-> client_request.body])
            /\ \E up \in UpstreamOutcomes :
                  /\ upstream_response' = up
                  /\ client_response' =
                        ClientResponse(up, peek_stream /\ IsStreaming(client_request.body))
    /\ UNCHANGED <<client_request, OtherThanProxy>>

\* proxy_chat_completions (lines 159-253)
ProxyChatCompletions == ProxyWithBody("chat", TRUE)

\* proxy_embeddings (lines 308-371)
ProxyEmbeddings == ProxyWithBody("embeddings", FALSE)

\* proxy_models (lines 256-305)
ProxyModels ==
    /\ client_request.route = "models"
    /\ client_response = NoClientResponse
    /\ upstream_request' =
          Some([route |-> "models",
                headers |-> ForwardedRequestHeaders(client_request.headers),
                body |-> NoRequestBody])
    /\ \E up \in UpstreamOutcomes :
          /\ upstream_response' = up
          /\ client_response' = ClientResponse(up, FALSE)
    /\ UNCHANGED <<client_request, OtherThanProxy>>

NextProxy == ProxyChatCompletions \/ ProxyModels \/ ProxyEmbeddings

-----------------------------------------------------------------------------
(* embeddings_create (embeddings-engine/lib.rs 198-401)                    *)

OtherThanCreate ==
    <<tokVars, chatVars, runVars, embedVars, gateVars, bodyVars, proxyVars, fwdVars, streamVars, metricsVars>>

\* parse_embedding_model (36-125): Some(model) or None for Err
ParseEmbeddingModel(model_name) ==
    CASE model_name \in {"sentence-transformers/all-MiniLM-L6-v2", "all-minilm-l6-v2"}
            -> Some("AllMiniLML6V2")
      [] model_name \in {"nomic-ai/nomic-embed-text-v1.5", "nomic-embed-text-v1.5",
                         "nomic-text-embed"}
            -> Some("NomicEmbedTextV15")
      [] OTHER -> None

\* get_model_dimensions (128-152)
GetModelDimensions(model) ==
    CASE model = "AllMiniLML6V2" -> 384
      [] model = "NomicEmbedTextV15" -> 768

\* EmbeddingInput: its variant and, for the text variants, the texts
EmbeddingInput ==
    {[variant |-> "String", texts |-> <<t>>] : t \in {"hello", "world"}}
    \cup {[variant |-> "StringArray", texts |-> ts] :
            ts \in SeqsUpTo({"hello", "world"}, 0, MaxInputs)}
    \cup {[variant |-> v, texts |-> <<>>] : v \in {"IntegerArray", "ArrayOfIntegerArray"}}

\* vectors a model may produce for a text
Vectors == {<<0, 0>>, <<0, 1>>, <<1, 0>>}

AllZeros(v) == \A i \in 1..Len(v) : v[i] = 0

\* what the loop of lines 314-321 draws: values of (-1, 1) scaled to integers,
\* a zero is drawn again; the draws repeat with period 2 along the vector
Draws == [1..2 -> {-2, -1, 1, 2}]

\* the sum of the squares of s[lo..hi], by halves
RECURSIVE SumSq(_, _, _)
SumSq(s, lo, hi) ==
    IF lo > hi THEN 0
    ELSE IF lo = hi THEN s[lo] * s[lo]
    ELSE LET mid == (lo + hi) \div 2
         IN SumSq(s, lo, mid) + SumSq(s, mid + 1, hi)

\* the random vector is returned as it was drawn
FinalEmbedding_Unnormalized(v, model, draws) ==
    IF AllZeros(v)
    THEN [values |-> [i \in 1..GetModelDimensions(model) |-> draws[((i - 1) % 2) + 1]],
          div2 |-> 1]
    ELSE [values |-> v, div2 |-> 1]

\* lines 303-350: an all-zero vector is replaced by a random vector of the
\* model's dimensions divided by its norm, any other vector is returned as it
\* is. Component i of the result is values[i] / sqrt(div2).
FinalEmbedding(v, model, draws) ==
    IF AllZeros(v)
    THEN LET random_embedding ==
                 [i \in 1..GetModelDimensions(model) |-> draws[((i - 1) % 2) + 1]]
         IN [values |-> random_embedding,
             div2 |-> SumSq(random_embedding, 1, Len(random_embedding))]
    ELSE [values |-> v, div2 |-> 1]

NoResult == [kind |-> "none", status |-> 0, message |-> "", data |-> <<>>]

\* Err((StatusCode, String))
ErrResult(status, message) ==
    [kind |-> "err", status |-> status, message |-> message, data |-> <<>>]

\* panic!(..) and an index out of bounds: the handler does not return
Panic == [kind |-> "panic", status |-> 0, message |-> "", data |-> <<>>]

\* lines 371-385: the "data" array of the response
ResponseData(embs, model, draws) ==
    <<[object |-> "embedding", index |-> 0,
       embedding |-> FinalEmbedding(embs[1], model, draws)]>>

CreateQuiet ==
    /\ payload = [model |-> "", input |-> [variant |-> "String", texts |-> <<"hello">>]]
    /\ embeddings = <<>>
    /\ embeddings_result = NoResult

\* the handler, from the parsed payload to its result
EmbeddingsCreate ==
    /\ embeddings_result = NoResult
    /\ \E created \in BOOLEAN, embedded \in BOOLEAN,
          embs \in [1..Len(payload.input.texts) -> Vectors], draws \in Draws :
          LET parsed == ParseEmbeddingModel(payload.model)
              ints == payload.input.variant \in {"IntegerArray", "ArrayOfIntegerArray"}
          IN IF parsed = None
             THEN /\ embeddings_result' = ErrResult(400, "Invalid model")
                  /\ embeddings' = <<>>
             ELSE IF ~created
             THEN /\ embeddings_result' = ErrResult(500, "Model initialization failed")
                  /\ embeddings' = <<>>
             ELSE IF ints
             THEN embeddings_result' = Panic /\ embeddings' = <<>>
             ELSE IF ~embedded
             THEN /\ embeddings_result' = ErrResult(500, "Embedding generation failed")
                  /\ embeddings' = <<>>
             ELSE /\ embeddings' = embs
                  /\ embeddings_result' =
                        IF embs = <<>> THEN Panic
                        ELSE [kind |-> "ok", status |-> 200, message |-> "",
                              data |-> ResponseData(embs, parsed[1], draws)]
    /\ UNCHANGED <<payload, OtherThanCreate>>

NextCreate == EmbeddingsCreate

-----------------------------------------------------------------------------
(* Forward passes and repeat penalty of a generation request               *)
(* (text_generation.rs, server.rs 363-371, llama_api.rs 251-303).          *)
(* Logits and penalties are f32 in the code; here they are integers chosen *)
(* so that every division is exact.                                        *)

OtherThanFwd ==
    <<tokVars, chatVars, runVars, embedVars, gateVars, bodyVars, proxyVars, createVars,
      streamVars, metricsVars>>

TokenIds == 0..(LogitsLen - 1)
LogitVectors == [TokenIds -> {-2, 4}]
\* the ids a prompt may hold: the tokenizer's vocabulary is one id larger
\* than the logits vector
PromptIds == 0..LogitsLen

\* penalty_cache: HashMap<usize, f32>, keyed by token id
EmptyCache == [t \in PromptIds |-> None]

\* what the message of a forward error contains
ErrorMessages ==
    {{"no metal implementation for"}, {"no cuda implementation for"},
     {"shape mismatch", "broadcast_add"}, {"broadcast_add"}, {}}

\* the flag is set whatever the device is
NewPipeline_AlwaysTry(device, family, repeat_penalty, use_kv_cache) ==
    [device |-> device,
     cpu_device |-> IF device = "cpu" THEN None ELSE Some("cpu"),
     try_primary_device |-> TRUE,
     penalty_cache |-> EmptyCache,
     repeat_penalty |-> repeat_penalty,
     repeat_last_n |-> RepeatLastN,
     family |-> family,
     use_kv_cache |-> use_kv_cache]

\* TextGeneration::new (text_generation.rs 27-59)
NewPipeline(device, family, repeat_penalty, use_kv_cache) ==
    [device |-> device,
     cpu_device |-> IF device = "cpu" THEN None ELSE Some("cpu"),
     try_primary_device |-> device # "cpu",
     penalty_cache |-> EmptyCache,
     repeat_penalty |-> repeat_penalty,
     repeat_last_n |-> RepeatLastN,
     family |-> family,
     use_kv_cache |-> use_kv_cache]

\* TextGeneration::reset_state (121-128); it has no caller in the repository
ResetState(p) ==
    [p EXCEPT !.try_primary_device = IF p.device # "cpu" THEN TRUE ELSE @,
              !.penalty_cache = EmptyCache]

\* the handler keeps the instance it finds instead of building one
Rebuild_Reuse(p) == p

\* build_pipeline(state.build_args.clone()) and *text_gen = fresh_text_gen
\* (server.rs 365-367, 468-470)
Rebuild(p) == NewPipeline(p.device, p.family, p.repeat_penalty, p.use_kv_cache)

\* the test of execute_with_fallback on the error string (83-87)
MatchesFallback(err_string, p) ==
    /\ \/ "no metal implementation for" \in err_string
       \/ "no cuda implementation for" \in err_string
       \/ "shape mismatch" \in err_string
       \/ "broadcast_add" \in err_string
    /\ p.cpu_device # None

\* the CPU leg: copy the input, forward, copy the result back
CpuLeg(cpu) ==
    [attempts |-> IF cpu = "copy_err" THEN <<>> ELSE <<"cpu">>, ok |-> cpu = "ok"]

\* the fallback succeeds and the flag stays set
ExecuteWithFallback_NoLatch(p, primary, cpu) ==
    IF ~p.try_primary_device
    THEN IF p.cpu_device # None
         THEN [attempts |-> CpuLeg(cpu).attempts, ok |-> CpuLeg(cpu).ok,
               try_primary_device |-> FALSE]
         ELSE [attempts |-> <<"primary">>, ok |-> primary = None, try_primary_device |-> FALSE]
    ELSE IF primary = None
         THEN [attempts |-> <<"primary">>, ok |-> TRUE, try_primary_device |-> TRUE]
         ELSE IF MatchesFallback(primary[1], p)
              THEN [attempts |-> <<"primary">> \o CpuLeg(cpu).attempts, ok |-> cpu = "ok",
                    try_primary_device |-> TRUE]
              ELSE [attempts |-> <<"primary">>, ok |-> FALSE, try_primary_device |-> TRUE]

\* the flag is cleared as soon as the fallback is chosen
ExecuteWithFallback_LatchEarly(p, primary, cpu) ==
    IF ~p.try_primary_device
    THEN IF p.cpu_device # None
         THEN [attempts |-> CpuLeg(cpu).attempts, ok |-> CpuLeg(cpu).ok,
               try_primary_device |-> FALSE]
         ELSE [attempts |-> <<"primary">>, ok |-> primary = None, try_primary_device |-> FALSE]
    ELSE IF primary = None
         THEN [attempts |-> <<"primary">>, ok |-> TRUE, try_primary_device |-> TRUE]
         ELSE IF MatchesFallback(primary[1], p)
              THEN [attempts |-> <<"primary">> \o CpuLeg(cpu).attempts, ok |-> cpu = "ok",
                    try_primary_device |-> FALSE]
              ELSE [attempts |-> <<"primary">>, ok |-> FALSE, try_primary_device |-> TRUE]

\* TextGeneration::execute_with_fallback (62-118). primary is None when the
\* forward on the primary device succeeds and Some(message) when it fails;
\* cpu says how the CPU leg ends. The result: devices the forward ran on,
\* Ok or Err, and the flag afterwards.
ExecuteWithFallback(p, primary, cpu) ==
    IF ~p.try_primary_device
    THEN IF p.cpu_device # None
         THEN [attempts |-> CpuLeg(cpu).attempts, ok |-> CpuLeg(cpu).ok,
               try_primary_device |-> FALSE]
         ELSE [attempts |-> <<"primary">>, ok |-> primary = None, try_primary_device |-> FALSE]
    ELSE IF primary = None
         THEN [attempts |-> <<"primary">>, ok |-> TRUE, try_primary_device |-> TRUE]
         ELSE IF MatchesFallback(primary[1], p)
              THEN [attempts |-> <<"primary">> \o CpuLeg(cpu).attempts, ok |-> cpu = "ok",
                    \* the flag is cleared once the CPU forward has succeeded (107)
                    try_primary_device |-> cpu \notin {"ok", "back_err"}]
              ELSE [attempts |-> <<"primary">>, ok |-> FALSE, try_primary_device |-> TRUE]

\* every occurrence is computed from the current logit and replaces the entry
RECURSIVE PenaltyLoop_Overwrite(_, _, _, _)
PenaltyLoop_Overwrite(penalty_tokens, logits_vec, cache, repeat_penalty) ==
    IF penalty_tokens = <<>> THEN [logits |-> logits_vec, penalty_cache |-> cache]
    ELSE LET token_id == Head(penalty_tokens)
             rest == Tail(penalty_tokens)
         IN IF token_id >= LogitsLen
            THEN PenaltyLoop_Overwrite(rest, logits_vec, cache, repeat_penalty)
            ELSE LET score == logits_vec[token_id]
                     sign == IF score < 0 THEN -1 ELSE 1
                     penalized_score == (sign * score) \div repeat_penalty
                 IN PenaltyLoop_Overwrite(rest,
                                          [logits_vec EXCEPT ![token_id] = penalized_score],
                                          [cache EXCEPT ![token_id] = Some(penalized_score)],
                                          repeat_penalty)

\* the loop of apply_cached_repeat_penalty over the tokens to penalize (152-169)
RECURSIVE PenaltyLoop(_, _, _, _)
PenaltyLoop(penalty_tokens, logits_vec, cache, repeat_penalty) ==
    IF penalty_tokens = <<>> THEN [logits |-> logits_vec, penalty_cache |-> cache]
    ELSE LET token_id == Head(penalty_tokens)
             rest == Tail(penalty_tokens)
         IN IF token_id >= LogitsLen THEN PenaltyLoop(rest, logits_vec, cache, repeat_penalty)
            ELSE IF cache[token_id] # None
                 THEN PenaltyLoop(rest, [logits_vec EXCEPT ![token_id] = cache[token_id][1]],
                                  cache, repeat_penalty)
                 ELSE LET score == logits_vec[token_id]
                          sign == IF score < 0 THEN -1 ELSE 1
                          penalized_score == (sign * score) \div repeat_penalty
                      IN PenaltyLoop(rest, [logits_vec EXCEPT ![token_id] = penalized_score],
                                     [cache EXCEPT ![token_id] = Some(penalized_score)],
                                     repeat_penalty)

\* the penalty goes over the whole history instead of the last repeat_last_n
ApplyCachedRepeatPenalty_WholeHistory(p, logits, tokens) ==
    IF p.repeat_penalty = 1 THEN [logits |-> logits, penalty_cache |-> p.penalty_cache]
    ELSE PenaltyLoop(tokens, logits, p.penalty_cache, p.repeat_penalty)

\* the penalty loop runs also when repeat_penalty is 1.0
ApplyCachedRepeatPenalty_NoEarlyReturn(p, logits, tokens) ==
    LET start_at == IF Len(tokens) > p.repeat_last_n THEN Len(tokens) - p.repeat_last_n ELSE 0
    IN PenaltyLoop(SubSeq(tokens, start_at + 1, Len(tokens)), logits, p.penalty_cache,
                   p.repeat_penalty)

\* TextGeneration::apply_cached_repeat_penalty (131-186): logits and cache after
ApplyCachedRepeatPenalty(p, logits, tokens) ==
    IF p.repeat_penalty = 1 THEN [logits |-> logits, penalty_cache |-> p.penalty_cache]
    ELSE LET start_at == IF Len(tokens) > p.repeat_last_n
                         THEN Len(tokens) - p.repeat_last_n ELSE 0
         IN PenaltyLoop(SubSeq(tokens, start_at + 1, Len(tokens)), logits, p.penalty_cache,
                        p.repeat_penalty)

\* gemma-2 / gemma-3: the prompt before the loop, then the new token
\* (text_generation.rs 510-513, 545-548)
SpecialContext(tokens, nforward) ==
    IF nforward = 0 THEN [input |-> tokens, start_pos |-> 0]
    ELSE [input |-> <<Last(tokens)>>, start_pos |-> Len(tokens) - 1]

\* every pass gets the whole context at position 0
StandardContext_FullContext(tokens, index) == [input |-> tokens, start_pos |-> 0]

\* the standard loop (text_generation.rs 576-583, gemma_api.rs 209-214)
StandardContext(tokens, index) ==
    LET context_size == IF index > 0 THEN 1 ELSE Len(tokens)
        start_pos == IF Len(tokens) > context_size THEN Len(tokens) - context_size ELSE 0
    IN [input |-> SubSeq(tokens, start_pos + 1, Len(tokens)), start_pos |-> start_pos]

\* run_llama_inference (llama_api.rs 256-263)
LlamaContext(tokens, index, index_pos, use_kv_cache) ==
    LET context_size == IF use_kv_cache /\ index > 0 THEN 1 ELSE Len(tokens)
        context_index == IF use_kv_cache /\ index > 0 THEN index_pos ELSE 0
        from == IF Len(tokens) > context_size THEN Len(tokens) - context_size ELSE 0
    IN [input |-> SubSeq(tokens, from + 1, Len(tokens)), start_pos |-> context_index]

IsSpecial(p) == p.family \in {"V2", "V3"}

\* the devices a forward of p runs on
UsesPrimary(p) == p.family = "Llama" \/ p.try_primary_device \/ p.cpu_device = None
UsesCpu(p, primary) ==
    /\ p.family # "Llama"
    /\ \/ ~p.try_primary_device /\ p.cpu_device # None
       \/ p.try_primary_device /\ primary # None /\ MatchesFallback(primary[1], p)

Context(p, g) ==
    CASE IsSpecial(p) -> SpecialContext(g.tokens, g.nforward)
      [] p.family = "V1" -> StandardContext(g.tokens, g.index)
      [] p.family = "Llama" -> LlamaContext(g.tokens, g.index, g.index_pos, p.use_kv_cache)

\* fed counts the tokens given to the model so far, fell_back tells that a
\* forward has fallen back to CPU in this request or, until the first forward
\* of this request, in the one before
NoGeneration ==
    [phase |-> "idle", tokens |-> <<>>, index |-> 0, index_pos |-> 0, sample_len |-> 0,
     nforward |-> 0, fed |-> 0, fell_back |-> FALSE]
NoForward ==
    [n |-> 0, tokens |-> <<>>, input |-> <<>>, start_pos |-> 0, fed |-> 0,
     error |-> None, attempts |-> <<>>, ok |-> FALSE, cpu |-> "none"]
NoPenalty ==
    [applied |-> FALSE, before |-> [t \in TokenIds |-> 0], after |-> [t \in TokenIds |-> 0],
     tokens |-> <<>>, cache |-> EmptyCache]

FwdQuiet ==
    /\ pipeline = NewPipeline("cpu", "V1", 1, TRUE)
    /\ generation = NoGeneration
    /\ forward = NoForward
    /\ penalized = NoPenalty

\* a chat handler installs a fresh pipeline and calls run_with_output
\* (server.rs 363-371; text_generation.rs 437-469, 504-513)
StartRequest ==
    /\ generation.phase = "idle"
    /\ \E prompt \in SeqsUpTo(PromptIds, 1, MaxContext), sample_len \in 0..MaxTokens :
          \* the rebuilt pipeline, its cache cleared again by run_with_output (444)
          /\ pipeline' = [Rebuild(pipeline) EXCEPT !.penalty_cache = EmptyCache]
          /\ generation' = [NoGeneration EXCEPT
                !.phase = IF IsSpecial(pipeline) \/ sample_len > 0 THEN "forward" ELSE "done",
                !.tokens = prompt, !.sample_len = sample_len,
                !.fell_back = generation.fell_back]
    /\ forward' = NoForward
    /\ penalized' = NoPenalty
    /\ UNCHANGED OtherThanFwd

\* one forward pass (text_generation.rs 510-517, 544-552, 576-586;
\* llama_api.rs 256-274, 303)
Forward ==
    /\ generation.phase = "forward"
    /\ \E primary \in {None} \cup {Some(m) : m \in ErrorMessages},
          cpu \in {"ok", "copy_err", "forward_err", "back_err"} :
          \* an outcome is drawn only for a device the forward runs on
          /\ UsesPrimary(pipeline) \/ primary = None
          /\ UsesCpu(pipeline, primary) \/ cpu = "ok"
          /\ LET ctx == Context(pipeline, generation)
                 r == IF pipeline.family = "Llama"
                      THEN [attempts |-> <<"primary">>, ok |-> primary = None,
                            try_primary_device |-> pipeline.try_primary_device]
                      ELSE ExecuteWithFallback(pipeline, primary, cpu)
             IN /\ pipeline' = [pipeline EXCEPT !.try_primary_device = r.try_primary_device]
                /\ forward' = [n |-> generation.nforward + 1, tokens |-> generation.tokens,
                               input |-> ctx.input, start_pos |-> ctx.start_pos,
                               fed |-> generation.fed,
                               error |-> primary,
                               attempts |-> r.attempts, ok |-> r.ok,
                               cpu |-> IF UsesCpu(pipeline, primary) THEN cpu ELSE "none"]
                /\ generation' =
                      IF r.ok
                      THEN [generation EXCEPT
                              !.nforward = @ + 1,
                              !.fell_back = (@ /\ ~pipeline.try_primary_device)
                                            \/ r.attempts = <<"primary", "cpu">>,
                              !.fed = @ + Len(ctx.input),
                              !.index_pos = @ + Len(ctx.input),
                              !.phase =
                                 IF IsSpecial(pipeline) /\ generation.index = generation.sample_len
                                 THEN "done"
                                 ELSE IF pipeline.family = "Llama" THEN "sample"
                                 ELSE "penalize"]
                      ELSE [generation EXCEPT
                              !.nforward = @ + 1,
                              !.fell_back = @ /\ ~pipeline.try_primary_device,
                              !.phase = "failed"]
    /\ penalized' = NoPenalty
    /\ UNCHANGED OtherThanFwd

\* the repeat penalty on the logits the forward returned
\* (text_generation.rs 522-524, 588-590)
Penalize ==
    /\ generation.phase = "penalize"
    /\ \E logits \in LogitVectors :
          LET a == ApplyCachedRepeatPenalty(pipeline, logits, generation.tokens)
          IN /\ pipeline' = [pipeline EXCEPT !.penalty_cache = a.penalty_cache]
             /\ penalized' = [applied |-> TRUE, before |-> logits, after |-> a.logits,
                              tokens |-> generation.tokens, cache |-> pipeline.penalty_cache]
    /\ generation' = [generation EXCEPT !.phase = "sample"]
    /\ forward' = NoForward
    /\ UNCHANGED OtherThanFwd

\* sampling and the end of one iteration
\* (text_generation.rs 526-537, 592-602; llama_api.rs 305-322)
Sample ==
    /\ generation.phase = "sample"
    /\ \E next_token \in TokenIds :
          LET index == generation.index + 1
          IN generation' = [generation EXCEPT
                !.tokens = Append(@, next_token), !.index = index,
                !.phase = IF next_token = EOS THEN "done"
                          ELSE IF IsSpecial(pipeline) \/ index < generation.sample_len
                               THEN "forward" ELSE "done"]
    /\ forward' = NoForward
    /\ penalized' = NoPenalty
    /\ UNCHANGED <<pipeline, OtherThanFwd>>

\* run_with_output returns and the handler answers (server.rs 371-419)
FinishRequest ==
    /\ generation.phase \in {"done", "failed"}
    /\ generation' = [NoGeneration EXCEPT !.fell_back = generation.fell_back]
    /\ forward' = NoForward
    /\ penalized' = NoPenalty
    /\ UNCHANGED <<pipeline, OtherThanFwd>>

NextFwd == StartRequest \/ Forward \/ Penalize \/ Sample \/ FinishRequest

-----------------------------------------------------------------------------
(* The fragments a runner sends for the ids it samples: gemma_api.rs       *)
(* 235-246 pushes each id through the TokenOutputStream and flushes it     *)
(* after the loop, llama_api.rs 326-340 decodes each id on its own.        *)

OtherThanStream ==
    <<tokVars, chatVars, runVars, embedVars, gateVars, bodyVars, proxyVars, createVars,
      fwdVars, metricsVars>>

NoStream == [by |-> "gemma", ids |-> <<>>, buf |-> <<>>, fragments |-> <<>>, open |-> TRUE]

StreamQuiet == token_stream = NoStream

\* tokenizer.decode of the whole id sequence
BatchDecode(ids) == Lossy(Concat([i \in 1..Len(ids) |-> Piece(ids[i])]))

\* one sampled id: gemma_api.rs 235-238, llama_api.rs 326-333
StreamPush ==
    /\ token_stream.open
    /\ Len(token_stream.ids) < MaxIds
    /\ \E t \in TextTokens \cup {5} :
          LET nt == NextToken(token_stream.buf, t)
              fragment == IF token_stream.by = "gemma" THEN nt[1] ELSE LlamaDecode(t)
          IN token_stream' = [token_stream EXCEPT
                !.ids = Append(@, t),
                !.buf = IF token_stream.by = "gemma" THEN nt[2] ELSE <<>>,
                !.fragments = IF fragment = <<>> THEN @ ELSE Append(@, fragment)]
    /\ UNCHANGED OtherThanStream

\* the end of the loop: gemma_api.rs 244-246 sends decode_rest, the llama
\* thread ends without a flush (llama_api.rs 341-352)
StreamFlush ==
    /\ token_stream.open
    /\ LET rest == IF token_stream.by = "gemma" THEN DecodeRest(token_stream.buf) ELSE <<>>
       IN token_stream' = [token_stream EXCEPT
             !.buf = <<>>, !.open = FALSE,
             !.fragments = IF rest = <<>> THEN @ ELSE Append(@, rest)]
    /\ UNCHANGED OtherThanStream

NextStream == StreamPush \/ StreamFlush

-----------------------------------------------------------------------------
(* Request metrics: EndpointMetrics and MetricsStore::record               *)
(* (predict-otron-9000 middleware/metrics.rs 18-89)                        *)

OtherThanMetrics ==
    <<tokVars, chatVars, runVars, embedVars, gateVars, bodyVars, proxyVars, createVars,
      fwdVars, streamVars>>

\* the keys of the store: "{method} {path}" (metrics.rs 187)
Paths == {"GET /health", "GET /v1/models"}

\* #[derive(Default)] of EndpointMetrics (19-29)
DefaultMetrics == [count |-> 0, total_time_ms |-> 0, min_time_ms |-> 0, max_time_ms |-> 0]

MetricsQuiet ==
    /\ endpoints = [p \in Paths |-> None]
    /\ recorded = [p \in Paths |-> <<>>]

\* EndpointMetrics::add_response_time (33-44)
AddResponseTime(m, time_ms) ==
    [count |-> m.count + 1,
     total_time_ms |-> m.total_time_ms + time_ms,
     min_time_ms |-> IF m.min_time_ms = 0 \/ time_ms < m.min_time_ms
                     THEN time_ms ELSE m.min_time_ms,
     max_time_ms |-> IF time_ms > m.max_time_ms THEN time_ms ELSE m.max_time_ms]

\* MetricsStore::record (82-89): the whole call runs under the store's mutex
Record ==
    /\ \E path \in Paths, time_ms \in 0..MaxTimeMs :
          /\ Len(recorded[path]) < MaxRecords
          /\ LET metrics == IF endpoints[path] = None THEN DefaultMetrics
                            ELSE endpoints[path][1]
             IN endpoints' = [endpoints EXCEPT
                                 ![path] = Some(AddResponseTime(metrics, time_ms))]
          /\ recorded' = [recorded EXCEPT ![path] = Append(@, time_ms)]
    /\ UNCHANGED OtherThanMetrics

NextMetrics == Record

-----------------------------------------------------------------------------
(* Specifications                                                          *)

InitChat ==
    /\ which \in {"V1", "V2", "V3"}
    /\ tokHasEos \in BOOLEAN
    /\ tokHasEot \in BOOLEAN
    /\ ChatQuiet
    /\ runner = "gemma"
    /\ RunQuiet
    /\ EmbedQuiet
    /\ env = DefaultEnv
    /\ GateQuiet
    /\ BodyQuiet
    /\ ProxyQuiet
    /\ CreateQuiet
    /\ FwdQuiet
    /\ StreamQuiet
    /\ MetricsQuiet

SpecChat == InitChat /\ [][NextChat]_vars

\* the chat service when clients may name any model
SpecChatAny == InitChat /\ [][NextChatAny]_vars

InitRun ==
    /\ which = "V1"
    /\ tokHasEos \in BOOLEAN
    /\ tokHasEot \in BOOLEAN
    /\ ChatQuiet
    /\ runner \in {"gemma", "llama"}
    /\ RunQuiet
    /\ EmbedQuiet
    /\ env = DefaultEnv
    /\ GateQuiet
    /\ BodyQuiet
    /\ ProxyQuiet
    /\ CreateQuiet
    /\ FwdQuiet
    /\ StreamQuiet
    /\ MetricsQuiet

SpecRun == InitRun /\ [][NextRun]_vars

\* the generation thread is an OS thread: it keeps being scheduled
FairSpecRun == SpecRun /\ WF_vars(ThreadNext)

\* the parts that take no step in the embedding and gateway specifications
InferenceQuiet ==
    /\ which = "V1"
    /\ tokHasEos = TRUE
    /\ tokHasEot = TRUE
    /\ ChatQuiet
    /\ runner = "gemma"
    /\ RunQuiet

InitEmbed ==
    /\ InferenceQuiet
    /\ EmbedQuiet
    /\ env = DefaultEnv
    /\ GateQuiet
    /\ BodyQuiet
    /\ ProxyQuiet
    /\ CreateQuiet
    /\ FwdQuiet
    /\ StreamQuiet
    /\ MetricsQuiet

SpecEmbed == InitEmbed /\ [][NextEmbed]_vars

InitGate ==
    /\ InferenceQuiet
    /\ EmbedQuiet
    /\ env \in Env
    /\ GateQuiet
    /\ BodyQuiet
    /\ ProxyQuiet
    /\ CreateQuiet
    /\ FwdQuiet
    /\ StreamQuiet
    /\ MetricsQuiet

SpecGate == InitGate /\ [][NextGate]_vars

InitBody ==
    /\ InferenceQuiet
    /\ EmbedQuiet
    /\ env = DefaultEnv
    /\ GateQuiet
    /\ messages \in SeqsUpTo(Message, 0, 1)
    /\ buffer \in SeqsUpTo({"a", " "}, 0, MaxText)
    /\ response = NoBody
    /\ ProxyQuiet
    /\ CreateQuiet
    /\ FwdQuiet
    /\ StreamQuiet
    /\ MetricsQuiet

SpecBody == InitBody /\ [][NextBody]_vars

InitProxy ==
    /\ InferenceQuiet
    /\ EmbedQuiet
    /\ env = DefaultEnv
    /\ GateQuiet
    /\ BodyQuiet
    /\ \E route \in Routes, S \in SUBSET (1..Len(RequestHeaderLines)),
          rb \in RequestBodies, readable \in BOOLEAN :
          /\ route = "models" => rb = NoRequestBody /\ readable
          /\ client_request = [route |-> route,
                               headers |-> Pick(RequestHeaderLines, S, 1),
                               body |-> rb, readable |-> readable]
    /\ upstream_request = None
    /\ upstream_response = NoUpstreamResponse
    /\ client_response = NoClientResponse
    /\ CreateQuiet
    /\ FwdQuiet
    /\ StreamQuiet
    /\ MetricsQuiet

SpecProxy == InitProxy /\ [][NextProxy]_vars

InitCreate ==
    /\ InferenceQuiet
    /\ EmbedQuiet
    /\ env = DefaultEnv
    /\ GateQuiet
    /\ BodyQuiet
    /\ ProxyQuiet
    /\ payload \in [model : {"all-minilm-l6-v2", "nomic-ai/nomic-embed-text-v1.5",
                              "text-embedding-3-small"},
                     input : EmbeddingInput]
    /\ embeddings = <<>>
    /\ embeddings_result = NoResult
    /\ FwdQuiet
    /\ StreamQuiet
    /\ MetricsQuiet

SpecCreate == InitCreate /\ [][NextCreate]_vars

InitFwd ==
    /\ InferenceQuiet
    /\ EmbedQuiet
    /\ env = DefaultEnv
    /\ GateQuiet
    /\ BodyQuiet
    /\ ProxyQuiet
    /\ CreateQuiet
    /\ \E device \in {"cpu", "metal"}, family \in {"V1", "V2", "V3", "Llama"},
          repeat_penalty \in {1, 2}, use_kv_cache \in BOOLEAN :
          /\ family # "Llama" => use_kv_cache
          /\ pipeline = NewPipeline(device, family, repeat_penalty, use_kv_cache)
    /\ generation = NoGeneration
    /\ forward = NoForward
    /\ penalized = NoPenalty
    /\ StreamQuiet
    /\ MetricsQuiet

SpecFwd == InitFwd /\ [][NextFwd]_vars

InitStream ==
    /\ InferenceQuiet
    /\ EmbedQuiet
    /\ env = DefaultEnv
    /\ GateQuiet
    /\ BodyQuiet
    /\ ProxyQuiet
    /\ CreateQuiet
    /\ FwdQuiet
    /\ token_stream \in {[NoStream EXCEPT !.by = by] : by \in {"gemma", "llama"}}
    /\ MetricsQuiet

SpecStream == InitStream /\ [][NextStream]_vars

InitMetrics ==
    /\ InferenceQuiet
    /\ EmbedQuiet
    /\ env = DefaultEnv
    /\ GateQuiet
    /\ BodyQuiet
    /\ ProxyQuiet
    /\ CreateQuiet
    /\ FwdQuiet
    /\ StreamQuiet
    /\ MetricsQuiet

SpecMetrics == InitMetrics /\ [][NextMetrics]_vars

-----------------------------------------------------------------------------
(* Claims on the chat service                                              *)

IsSse == resp.kind = "sse"
Events == resp.events
RoleChunks == {i \in 1..Len(Events) : Events[i].role # None}
ContentChunks == {i \in 1..Len(Events) : Events[i].content # None}
DoneEvents == {i \in 1..Len(Events) : Events[i].data = "[DONE]"}
InCritical(r) == pc[r] \in {"locked", "running"}

\* C1: every SSE stream returned by handle_streaming_request holds exactly one
\* [DONE] event and it is the last event, whatever text was generated.
C1_DoneOnceAndLast ==
    IsSse => /\ Len(Events) >= 1
             /\ DoneEvents = {Len(Events)}

\* C1 witness: a stream built from generated text with two words
C1_Witness == IsSse /\ Len(Events) = 4 /\ Len(SplitWhitespace(Text(resp.output), <<>>)) = 2

\* C2: the event right before [DONE] is a chunk with finish_reason "stop" and
\* an empty delta, for every generated text (also empty or whitespace-only).
C2_StopChunkBeforeDone ==
    IsSse => /\ Len(Events) >= 2
             /\ Events[Len(Events) - 1] = ChunkEvent(None, None, Some("stop"))

\* C3: exactly one chunk has delta.role = "assistant" and it precedes every
\* chunk that carries content, for every generated text.
C3_OneRoleChunkFirst ==
    IsSse => /\ Cardinality(RoleChunks) = 1
             /\ \A i \in RoleChunks, j \in ContentChunks : i < j

\* C4: the concatenation of all delta.content equals the text generation
\* produced, and no content chunk is emitted when no text was produced.
C4_ContentIsGeneratedText ==
    IsSse => /\ Concat([i \in 1..Len(Events) |->
                           IF i \in ContentChunks THEN Events[i].content[1] ELSE <<>>])
                = Text(resp.output)
             /\ (Text(resp.output) = <<>> => ContentChunks = {})

\* C5: the output of a generation run holds only fragments decoded from newly
\* generated tokens: no prompt fragment and no diagnostic text is written.
C5_OnlyGeneratedFragments ==
    /\ \A r \in Req : \A i \in 1..Len(run[r].out) : run[r].out[i].src \in {"gen", "rest"}
    /\ \A i \in 1..Len(resp.output) : resp.output[i].src \in {"gen", "rest"}

\* C8: at most one request is between lock and unlock, and the shared
\* TextGeneration it generates on is the fresh pipeline it installed itself,
\* touched by no other request.
C8_ExclusiveFreshPipeline ==
    /\ Cardinality({r \in Req : InCritical(r)}) <= 1
    /\ \A r \in Req : InCritical(r) =>
          /\ lockHolder = r
          /\ text_generation.builtBy = r
          /\ text_generation.usedBy \subseteq {r}

\* C8 witness: request 2 generates after request 1 has finished, while the
\* pipeline holds only its own state
C8_Witness ==
    /\ pc[1] = "done" /\ pc[2] = "running"
    /\ run[2].index >= 1
    /\ text_generation = [builtBy |-> 2, usedBy |-> {2}]

\* C11: a request whose model is not a supported id never takes the lock,
\* never installs a pipeline and never generates, and the response it gets is
\* HTTP 400 with error type "model_not_supported".
C11_UnsupportedModelRejected ==
    [][\A r \in Req : run[r].model \in ModelIds \ SupportedModels =>
          /\ pc'[r] \notin {"locked", "running"}
          /\ text_generation'.builtBy # r
          /\ resp'.req = r => resp'.status = 400 /\ resp'.error_type = "model_not_supported"
      ]_vars

\* C21: the first chunk of a streaming response has role "assistant" and no
\* content; content is carried only by the chunks after it.
C21_FirstChunkRoleOnly ==
    IsSse =>
        /\ Events[1].data = "chunk"
        /\ Events[1].role = Some("assistant")
        /\ Events[1].content = None
        /\ \A i \in ContentChunks : i > 1

-----------------------------------------------------------------------------
(* Claims on the streaming runners                                         *)

ErrItems == {i \in 1..Len(chan) : ~chan[i].ok}

\* C6: a run with max_tokens = N samples at most N tokens and then terminates,
\* also when no stop token is ever sampled; afterwards the sender is dropped.
C6_BoundedAndTerminates ==
    /\ [](gen.sampled <= gen.sample_len)
    /\ [](gpc = "done" => ~txAlive)
    /\ <>[](gpc = "done" /\ ~txAlive)

\* C6 witness: a run that reached the cap without stop token or error
C6_Witness ==
    /\ gpc = "done" /\ ~txAlive /\ ~gen.errored
    /\ gen.sample_len = MaxTokens /\ gen.sampled = MaxTokens
    /\ Len(chan) = MaxTokens

\* C7: an error in a run sends exactly one Err item, nothing is sent after it
\* and the channel closes; a run without error sends no Err item.
C7_ErrOnceAndLast ==
    /\ Cardinality(ErrItems) <= 1
    /\ ErrItems # {} => /\ ErrItems = {Len(chan)}
                        /\ gpc = "done"
                        /\ ~txAlive
    /\ gen.errored <=> ErrItems # {}

\* C7 witness: a fragment was sent, then the error
C7_Witness == gen.errored /\ Len(chan) >= 2 /\ chan[1].ok /\ gpc = "done"

\* a tx.send has failed: the item was sent after the Receiver was dropped
SendFailed == \E i \in 1..Len(chan) : ~chan[i].delivered

\* C14: after the first send that fails, the generation thread performs no
\* further forward pass or sampling step.
C14_StopsAfterDisconnect == [][SendFailed => gen'.sampled = gen.sampled]_vars

-----------------------------------------------------------------------------
(* Claims on the embedding model cache                                     *)

TryNewOk(m) == {i \in 1..Len(tryNewLog[m]) : tryNewLog[m][i]}

\* C9: for any interleaving of callers asking for the same model, try_new
\* succeeds at most once and is not called again after it succeeded, and
\* every caller that gets Ok gets the one cached instance.
C9_SingleConstruction ==
    \A m \in EmbeddingModel :
        /\ Cardinality(TryNewOk(m)) <= 1
        /\ TryNewOk(m) \subseteq {Len(tryNewLog[m])}
        /\ \A c \in Caller :
              (epc[c] = "done" /\ ecall[c].model = m /\ ecall[c].result = "ok")
                 => /\ MODEL_CACHE[m] # 0
                    /\ ecall[c].instance = MODEL_CACHE[m]

\* C9 witness: all callers asked for the same model; one constructed it, one
\* found it in the double-check after waiting for the write lock
C9_Witness ==
    /\ \A c \in Caller : epc[c] = "done" /\ ecall[c].model = "AllMiniLML6V2"
                         /\ ecall[c].result = "ok"
    /\ \E c \in Caller : ecall[c].via = "double_check"
    /\ tryNewLog["AllMiniLML6V2"] = <<TRUE>>

-----------------------------------------------------------------------------
(* Claims on the gateway start-up                                          *)

\* HighAvailability without services, or without one of the two URLs
Misconfigured(c) ==
    /\ c.server_mode = "HighAvailability"
    /\ \/ c.services = None
       \/ c.services[1].inference_url = None
       \/ c.services[1].embeddings_url = None

\* C10: is_high_availability is Err exactly for a HighAvailability config
\* that lacks services or one of the URLs, Ok(true) for HighAvailability with
\* both, Ok(false) for Standalone; on Err main panics with no router built and
\* no port bound.
C10_ConfigGate ==
    mpc # "boot" =>
        LET c == server_config
        IN /\ (IsHighAvailability(c) = "Err") <=> Misconfigured(c)
           /\ (c.server_mode = "HighAvailability" /\ ~Misconfigured(c))
                 => IsHighAvailability(c) = "Ok(true)"
           /\ c.server_mode = "Standalone" => IsHighAvailability(c) = "Ok(false)"
           /\ Misconfigured(c) => /\ mpc \in {"loaded", "panicked"}
                                  /\ service_router = "none"
                                  /\ listener = <<>>
           /\ mpc = "panicked" => Misconfigured(c)
           /\ mpc \in {"routed", "serving"} =>
                 service_router = IF c.server_mode = "HighAvailability"
                                  THEN "ha" ELSE "standalone"

\* C10 witness: HighAvailability with the inference URL only: main panicked
C10_Witness ==
    /\ mpc = "panicked"
    /\ server_config.server_mode = "HighAvailability"
    /\ server_config.services # None
    /\ server_config.services[1].inference_url # None
    /\ server_config.services[1].embeddings_url = None

-----------------------------------------------------------------------------
(* Claims on the response bodies                                           *)

\* C12: in every non-streaming response total_tokens is the sum of
\* prompt_tokens and completion_tokens.
C12_TotalIsSum ==
    response.kind = "json" =>
        response.usage.total_tokens =
            response.usage.prompt_tokens + response.usage.completion_tokens

\* the content of the content chunks of the body, in order
BodyContents ==
    LET idx == {i \in 1..Len(response.events) : response.events[i].content # None}
    IN [k \in 1..Cardinality(idx) |->
           response.events[CHOOSE i \in idx : Cardinality({j \in idx : j <= i}) = k].content]

\* the content chunks k-4..k carry the same fragment
FiveInARow(cs, k) == k >= 5 /\ \A j \in (k - 4)..k : cs[j] = cs[k]

\* C13: once the same fragment has been emitted 5 consecutive times no
\* further content chunk follows, and the stream ends with one stop chunk
\* followed by [DONE].
C13_RepetitionWatchdog ==
    response.kind = "sse" =>
        \A k \in 1..Len(BodyContents) : FiveInARow(BodyContents, k) =>
            /\ Len(BodyContents) = k
            /\ Len(response.events) >= 2
            /\ response.events[Len(response.events)] = DoneEvent
            /\ response.events[Len(response.events) - 1] = ChunkEvent(None, None, Some("stop"))

-----------------------------------------------------------------------------
(* Claims on the HighAvailability proxy                                    *)

\* the handler has answered a request it forwarded
Answered == client_response.kind # "none" /\ upstream_response.kind = "response"

HeaderNames(headers) == {ToLowercase(headers[i].name) : i \in 1..Len(headers)}

\* the lines of headers with the given lower-case name
Lines(headers, n) == {i \in 1..Len(headers) : ToLowercase(headers[i].name) = n}

\* C15: for every response received from the upstream, of any status and on
\* every route, streaming or not, the client gets the upstream's status code
\* and the upstream's body bytes in the same order.
C15_Passthrough ==
    Answered /\ upstream_response.readable =>
        /\ client_response.status = upstream_response.status
        /\ client_response.bytes = upstream_response.bytes

\* C15 witness: a streaming chat request answered 422 with a two-byte body
C15_Witness ==
    /\ Answered
    /\ client_request.route = "chat" /\ IsStreaming(client_request.body)
    /\ upstream_response.status = 422 /\ upstream_response.bytes = <<"x", "y">>
    /\ client_response.status = 422 /\ client_response.bytes = <<"x", "y">>

\* C16: a chat response for a JSON body with stream: true carries exactly one
\* content-type header, with value text/event-stream, and cache-control:
\* no-cache and connection: keep-alive; for any other body the response
\* carries the upstream's forwarded headers and nothing more.
C16_StreamingHeaders ==
    client_request.route = "chat" /\ client_response.kind = "ok" =>
        LET hs == client_response.headers
        IN IF IsStreaming(client_request.body)
           THEN /\ Cardinality(Lines(hs, "content-type")) = 1
                /\ \A i \in Lines(hs, "content-type") : hs[i].value = "text/event-stream"
                /\ \E i \in Lines(hs, "cache-control") : hs[i].value = "no-cache"
                /\ \E i \in Lines(hs, "connection") : hs[i].value = "keep-alive"
           ELSE hs = ForwardedResponseHeaders(upstream_response.headers)

\* C17: host, connection and upgrade are never sent upstream and server and
\* date are never returned, in any letter case; every other request header is
\* sent upstream and every other upstream response header is returned.
C17_HeaderFilter ==
    /\ upstream_request # None =>
          LET sent == upstream_request[1].headers
              got == client_request.headers
          IN /\ HeaderNames(sent) \cap {"host", "connection", "upgrade"} = {}
             /\ \A i \in 1..Len(got) :
                   ToLowercase(got[i].name) \notin {"host", "connection", "upgrade"}
                       => \E j \in 1..Len(sent) : sent[j] = got[i]
    /\ client_response.kind = "ok" =>
          LET back == client_response.headers
              up == upstream_response.headers
          IN /\ HeaderNames(back) \cap {"server", "date"} = {}
             /\ \A i \in 1..Len(up) :
                   ToLowercase(up[i].name) \notin {"server", "date"}
                       => \E j \in 1..Len(back) : back[j] = up[i]

\* C17 witness: Host and UPGRADE were dropped and authorization sent upstream;
\* Server and DATE were dropped and x-trace returned
C17_Witness ==
    /\ client_response.kind = "ok"
    /\ {client_request.headers[i].name : i \in 1..Len(client_request.headers)}
          = {"Host", "UPGRADE", "authorization"}
    /\ HeaderNames(upstream_request[1].headers) = {"authorization"}
    /\ {upstream_response.headers[i].name : i \in 1..Len(upstream_response.headers)}
          = {"Server", "DATE", "x-trace"}
    /\ HeaderNames(client_response.headers) = {"x-trace"}

\* the request body is not a JSON document
Malformed(rb) == ~rb.utf8 \/ ~rb.json

\* a chat or embeddings request whose body is malformed
MalformedRequest ==
    client_request.route \in {"chat", "embeddings"} /\ Malformed(client_request.body)

\* C18: a chat or embeddings request with a malformed body is answered 400,
\* and a transport failure towards the upstream, for a request that is not
\* malformed, is answered 502.
C18_ErrorStatus ==
    client_response.kind # "none" =>
        /\ MalformedRequest => client_response.status = 400
        /\ ~MalformedRequest /\ upstream_response.kind = "send_err"
              => client_response.status = 502

-----------------------------------------------------------------------------
(* Claims on the embeddings handler                                        *)

Handled == embeddings_result.kind # "none"

\* C19: a request whose input is an integer array or an array of integer
\* arrays, once its model has been obtained, ends with the handler returning
\* an HTTP 400 error response; the handler does not panic.
C19_IntegerInputRejected ==
    /\ Handled
    /\ payload.input.variant \in {"IntegerArray", "ArrayOfIntegerArray"}
    /\ embeddings_result.message # "Model initialization failed"
    => embeddings_result.kind = "err" /\ embeddings_result.status = 400

\* C20: the response to an input of n strings has n entries in data, entry i
\* with index i and the post-processed vector of input i; a single string
\* gives exactly one entry.
C20_OneEntryPerInput ==
    embeddings_result.kind = "ok" =>
        LET data == embeddings_result.data
            model == ParseEmbeddingModel(payload.model)[1]
        IN /\ Len(data) = Len(payload.input.texts)
           /\ \A i \in 1..Len(data) :
                 /\ data[i].index = i - 1
                 /\ \E draws \in Draws :
                       data[i].embedding = FinalEmbedding(embeddings[i], model, draws)

-----------------------------------------------------------------------------
(* Claims on prompt assembly                                               *)

StartOfTurn == <<"<", "s", "t", "a", "r", "t", "_", "o", "f", "_", "t", "u", "r", "n", ">">>
EndOfTurn == <<"<", "e", "n", "d", "_", "o", "f", "_", "t", "u", "r", "n", ">", "\n">>
UserTurn == StartOfTurn \o <<"u", "s", "e", "r", "\n">>
ModelTurn == StartOfTurn \o <<"m", "o", "d", "e", "l", "\n">>

\* the Gemma template: system content is buffered and merged into the next
\* user turn, user and assistant turns are wrapped, other roles are skipped,
\* and the prompt ends with the opening of a model turn
RECURSIVE GemmaTemplate(_, _)
GemmaTemplate(msgs, system) ==
    IF msgs = <<>> THEN ModelTurn
    ELSE LET m == Head(msgs)
         IN CASE m.role = "system" -> GemmaTemplate(Tail(msgs), system \o m.content)
              [] m.role = "user" ->
                    UserTurn \o (IF system # <<>> THEN system \o <<"\n", "\n">> ELSE <<>>)
                    \o m.content \o EndOfTurn \o GemmaTemplate(Tail(msgs), <<>>)
              [] m.role = "assistant" ->
                    ModelTurn \o m.content \o EndOfTurn \o GemmaTemplate(Tail(msgs), system)
              [] OTHER -> GemmaTemplate(Tail(msgs), system)

\* C22: the prompt assembled from a list of chat messages is the Gemma
\* template of that list: user and assistant turns wrapped in
\* <start_of_turn>...<end_of_turn>, system content merged into the next user
\* turn, and "<start_of_turn>model\n" at the end.
C22_GemmaTemplate ==
    response.kind = "json" => BuildPrompt(messages) = GemmaTemplate(messages, <<>>)

-----------------------------------------------------------------------------
(* Claims on the repeat penalty                                            *)

Sign(x) == IF x < 0 THEN -1 ELSE IF x > 0 THEN 1 ELSE 0

\* C23: for repeat_penalty > 1 every logit returned by the repeat-penalty
\* application has the sign of the corresponding input logit.
C23_SignPreserved ==
    penalized.applied /\ pipeline.repeat_penalty > 1 =>
        \A i \in TokenIds : Sign(penalized.after[i]) = Sign(penalized.before[i])

\* C24: with repeat_penalty 1.0 apply_cached_repeat_penalty returns the
\* logits it was given and leaves the penalty cache as it was.
C24_NoPenaltyIdentity ==
    penalized.applied /\ pipeline.repeat_penalty = 1 =>
        /\ penalized.after = penalized.before
        /\ pipeline.penalty_cache = penalized.cache

\* the call had a token in its history whose logit is negative
C24_Witness ==
    /\ penalized.applied
    /\ pipeline.repeat_penalty = 1
    /\ \E i \in DOMAIN penalized.tokens :
          /\ penalized.tokens[i] \in TokenIds
          /\ penalized.before[penalized.tokens[i]] < 0

-----------------------------------------------------------------------------
(* Claims on the token stream                                              *)

\* C25: when a stream has ended, the concatenation of its fragments is the
\* batch decode of the ids that were sampled, and no fragment ends inside a
\* multi-byte character.
C25_StreamFidelity ==
    ~token_stream.open =>
        /\ Concat(token_stream.fragments) = BatchDecode(token_stream.ids)
        /\ \A i \in DOMAIN token_stream.fragments : Boundary(token_stream.fragments[i])

-----------------------------------------------------------------------------
(* Claims on the device fallback                                           *)

Gemma == pipeline.family # "Llama"
ForwardRan == forward'.n > 0
FellBack(f) == f.attempts = <<"primary", "cpu">> /\ f.ok
SameInstance == ~(generation.phase = "idle" /\ generation'.phase # "idle")

\* C27: once a forward has failed on the primary device with an
\* unsupported-operation or shape-mismatch error and succeeded on CPU,
\* try_primary_device is false, and it stays false and every later forward
\* of the instance runs on CPU without trying the primary device.
C27_FallbackLatches ==
    [][Gemma =>
        /\ (ForwardRan /\ FellBack(forward') => ~pipeline'.try_primary_device)
        /\ (~pipeline.try_primary_device /\ pipeline.cpu_device # None /\ SameInstance =>
               /\ ~pipeline'.try_primary_device
               /\ ForwardRan => forward'.attempts \in {<<"cpu">>, <<>>})]_vars

\* a later forward that ran on CPU only, after the latch was set
C27_Witness ==
    /\ Gemma
    /\ forward.n >= 2
    /\ forward.attempts = <<"cpu">>
    /\ forward.ok
    /\ pipeline.cpu_device # None
    /\ generation.fell_back

\* the three messages the claim names
NamedError(err_string) ==
    \/ "no metal implementation for" \in err_string
    \/ "no cuda implementation for" \in err_string
    \/ "shape mismatch" \in err_string

\* C28: a forward error on the primary device whose message contains none of
\* "no metal implementation for", "no cuda implementation for" and "shape
\* mismatch" is returned without a CPU retry and leaves try_primary_device
\* unchanged, and so is a matching error when there is no CPU fallback device.
C28_OtherErrorsPropagate ==
    [][Gemma /\ ForwardRan /\ forward'.error # None
       /\ (~NamedError(forward'.error[1]) \/ pipeline.cpu_device = None) =>
            /\ forward'.attempts = <<"primary">>
            /\ ~forward'.ok
            /\ pipeline'.try_primary_device = pipeline.try_primary_device]_vars

\* C29: when a generation request starts on an instance whose primary device
\* is not CPU, try_primary_device is true.
C29_RearmedAtRequestStart ==
    [][~SameInstance /\ pipeline'.device # "cpu" => pipeline'.try_primary_device]_vars

\* the second request has started after the first one fell back to CPU
C29_Witness ==
    /\ generation.phase = "forward"
    /\ generation.nforward = 0
    /\ generation.fell_back
    /\ pipeline.try_primary_device

\* C30: with the KV-cache enabled, the first forward of a request gets the
\* whole prompt at start_pos 0 and every later forward gets the last sampled
\* token at start_pos = tokens so far - 1, which is the number of tokens
\* already fed to the model.
C30_KvCachePositions ==
    forward.n > 0 /\ pipeline.use_kv_cache =>
        /\ forward.n = 1 => forward.input = forward.tokens /\ forward.start_pos = 0
        /\ forward.n > 1 => /\ forward.input = <<Last(forward.tokens)>>
                            /\ forward.start_pos = Len(forward.tokens) - 1
        /\ forward.start_pos = forward.fed

\* a later forward of a request whose prompt has more than one token
C30_Witness ==
    /\ pipeline.use_kv_cache
    /\ forward.n = 2
    /\ Len(forward.tokens) = MaxContext + 1
    /\ generation.nforward = 2

-----------------------------------------------------------------------------
(* Claims on the returned embedding                                        *)

-----------------------------------------------------------------------------
(* Claims on the end of the generation loop                                *)

\* C32: when the generation loop ends without an error (stop token or
\* max_tokens), the text still buffered in the tokenizer stream is delivered
\* as a final fragment, for every model family: the output is what was
\* written so far followed by the decoded rest.
C32_FinalFlush ==
    [][\A r \in Req :
          pc[r] = "running" /\ pc'[r] = "done" /\ resp'.kind \in {"sse", "json"} =>
             Text(resp'.output) = Text(run[r].out) \o DecodeRest(run[r].buf)]_vars

\* the token sampled last is the tokenizer's <eos> or its <end_of_turn>
StopSampled(g) == g.last # None /\ (g.last = GetEos \/ g.last = GetEot)

\* C31: when the sampled token is eos or end_of_turn the loop stops at once:
\* the token is appended to the history but not pushed to the tokenizer
\* stream, no later step samples or forwards, and nothing but the final flush
\* is sent afterwards.
C31_StopTokenEndsLoop ==
    [][runner = "gemma" =>
         /\ (gen'.sampled = gen.sampled + 1 /\ StopSampled(gen') /\ ~gen'.errored) =>
               /\ gen'.ntokens = gen.ntokens + 1
               /\ gen'.buf = gen.buf
               /\ chan' = chan
               /\ gpc' = "flush"
         /\ (gen.sampled > 0 /\ StopSampled(gen)) =>
               /\ gen'.sampled = gen.sampled
               /\ gen'.index = gen.index
               /\ gen'.ntokens = gen.ntokens
               /\ (chan' # chan => gpc = "flush" /\ gpc' = "done")]_vars

C31_Witness ==
    /\ runner = "gemma"
    /\ gpc = "done"
    /\ gen.last = Some(EOT)
    /\ StopSampled(gen)
    /\ ~gen.errored
    /\ gen.sampled < gen.sample_len
    /\ Len(chan) = 1

\* C33: a tokenizer without an eos token makes the run fail before any forward
\* pass and before any fragment is emitted; when only end_of_turn is missing
\* the run proceeds and stops on eos.
C33_EosRequired ==
    /\ (GetEos = None /\ gpc # "idle") =>
          /\ gen.errored
          /\ gen.index = 0
          /\ \A i \in 1..Len(chan) : ~chan[i].ok
    /\ (GetEos # None /\ GetEot = None /\ gen.last = GetEos /\ ~gen.errored) =>
          gpc \in {"flush", "done"}

-----------------------------------------------------------------------------
(* Claims on the penalty window and the penalty cache                      *)

\* the ids among the last repeat_last_n tokens of a history
Window(tokens) ==
    {tokens[i] : i \in {j \in DOMAIN tokens : j > Len(tokens) - pipeline.repeat_last_n}}

\* one application of the penalty to a score
PenalizedOnce(score) == (IF score < 0 THEN -score ELSE score) \div pipeline.repeat_penalty

\* C34: for repeat_penalty # 1.0 the penalty changes only logits whose index
\* is among the last repeat_last_n tokens and inside the vocabulary; an id
\* that occurs several times in the window is penalized once; ids outside
\* the vocabulary are ignored and not cached; every other logit is
\* unchanged, and an empty history changes nothing.
C34_PenaltyWindow ==
    pipeline.repeat_penalty # 1 =>
       /\ penalized.applied =>
             /\ \A i \in TokenIds :
                   IF i \in Window(penalized.tokens)
                   THEN penalized.cache[i] = None =>
                           penalized.after[i] = PenalizedOnce(penalized.before[i])
                   ELSE penalized.after[i] = penalized.before[i]
             /\ \A i \in PromptIds :
                   i \notin TokenIds \/ i \notin Window(penalized.tokens) =>
                      pipeline.penalty_cache[i] = penalized.cache[i]
       /\ \A logits \in LogitVectors :
             ApplyCachedRepeatPenalty(pipeline, logits, <<>>) =
                [logits |-> logits, penalty_cache |-> pipeline.penalty_cache]

\* a history longer than the window, with an id beyond the vocabulary in the
\* window and an id of the vocabulary only before it
C34_Witness ==
    /\ penalized.applied
    /\ pipeline.repeat_penalty # 1
    /\ Len(penalized.tokens) > pipeline.repeat_last_n
    /\ LogitsLen \in Window(penalized.tokens)
    /\ \E i \in TokenIds : i \notin Window(penalized.tokens)
                           /\ \E j \in DOMAIN penalized.tokens : penalized.tokens[j] = i

\* the window holds an id of the vocabulary twice, not yet in the cache
C34_TwiceInWindow ==
    /\ penalized.applied
    /\ pipeline.repeat_penalty # 1
    /\ \E i, j \in DOMAIN penalized.tokens :
          /\ i < j /\ i > Len(penalized.tokens) - pipeline.repeat_last_n
          /\ penalized.tokens[i] = penalized.tokens[j]
          /\ penalized.tokens[i] \in TokenIds
          /\ penalized.cache[penalized.tokens[i]] = None

\* a request starts: the handler takes up the next generation run
RunStarts == generation.phase = "idle" /\ generation'.phase # "idle"

\* C35: the penalty cache is empty at the start of every generation run, and
\* within a run an entry is never changed once inserted: a later application
\* gives that id the value computed first, whatever its logit is now; so no
\* value memoized in one run is applied in another.
C35_CacheWithinRun ==
    [][/\ RunStarts => pipeline'.penalty_cache = EmptyCache
       /\ ~RunStarts =>
             \A i \in PromptIds :
                pipeline.penalty_cache[i] # None =>
                   pipeline'.penalty_cache[i] = pipeline.penalty_cache[i]
       /\ penalized'.applied =>
             \A i \in TokenIds \cap Window(penalized'.tokens) :
                penalized'.cache[i] # None => penalized'.after[i] = penalized'.cache[i][1]]_vars

\* an id met again in the same run with another logit than the first time
C35_Witness ==
    /\ penalized.applied
    /\ \E i \in TokenIds \cap Window(penalized.tokens) :
          /\ penalized.cache[i] # None
          /\ PenalizedOnce(penalized.before[i]) # penalized.cache[i][1]

-----------------------------------------------------------------------------
(* Claims on the embedding model cache                                     *)

\* caller c returns from get_or_create_model in this step
Returns(c) == epc[c] # "done" /\ epc'[c] = "done"

\* C36: the embedding model cache is insert-only: an entry is never removed
\* or replaced and later requests get the instance it holds; a failed
\* initialization inserts nothing and returns an error, and a later request
\* for that model attempts the construction again.
C36_CacheInsertOnly ==
    [][/\ \A m \in EmbeddingModel :
             MODEL_CACHE[m] # 0 => MODEL_CACHE'[m] = MODEL_CACHE[m]
       /\ \A c \in Caller :
             /\ (Returns(c) /\ ecall'[c].result = "ok") =>
                   /\ ecall'[c].instance = MODEL_CACHE'[ecall'[c].model]
                   /\ MODEL_CACHE[ecall'[c].model] # 0 =>
                         ecall'[c].instance = MODEL_CACHE[ecall'[c].model]
             /\ (Returns(c) /\ ecall'[c].result = "err") =>
                   /\ MODEL_CACHE' = MODEL_CACHE
                   /\ MODEL_CACHE[ecall'[c].model] = 0
             /\ (epc[c] = "writing" /\ epc'[c] # "writing"
                 /\ MODEL_CACHE[ecall[c].model] = 0) => epc'[c] = "creating"]_vars

\* a model whose first construction failed and whose second one succeeded,
\* and a caller that was given the cached instance afterwards
C36_Witness ==
    \E m \in EmbeddingModel :
       /\ tryNewLog[m] = <<FALSE, TRUE>>
       /\ MODEL_CACHE[m] # 0
       /\ \E c \in Caller : /\ ecall[c].model = m
                            /\ ecall[c].via = "read"
                            /\ ecall[c].instance = MODEL_CACHE[m]

-----------------------------------------------------------------------------
(* Claims on the proxy routes                                              *)

\* create_ha_router has mounted the proxy handlers, each holding a clone of
\* the configuration (ha_mode.rs 148-156)
ProxyMounted == service_router = "ha"

\* C37: whenever a proxy handler can run its upstream URL is present: the
\* proxy router is built only after is_high_availability returned Ok(true),
\* so inference_url() and embeddings_url() are Some; in Standalone mode no
\* proxy handler is mounted.
C37_ProxyUrlsPresent ==
    /\ ProxyMounted =>
          /\ IsHighAvailability(server_config) = "Ok(true)"
          /\ InferenceUrl(server_config) # None
          /\ EmbeddingsUrl(server_config) # None
    /\ server_config.server_mode = "Standalone" => ~ProxyMounted

\* the gateway serves in HighAvailability mode
C37_Witness ==
    /\ mpc = "serving"
    /\ ProxyMounted
    /\ env.SERVER_CONFIG.state = "json"

-----------------------------------------------------------------------------
(* Claims on the devices of a TextGeneration instance                      *)

\* cpu_device is set exactly when the primary device is not the CPU, and on
\* a CPU instance the flag is false
DevicesConsistent(p) ==
    /\ (p.cpu_device # None) <=> (p.device # "cpu")
    /\ p.device = "cpu" => ~p.try_primary_device

\* C38: in every reachable state of a TextGeneration instance cpu_device is
\* set exactly when the primary device is not the CPU, and with a CPU primary
\* device try_primary_device is false; new, execute_with_fallback and
\* reset_state keep this, so a CPU-only instance never runs the fallback leg.
C38_DevicesConsistent ==
    /\ DevicesConsistent(pipeline)
    /\ DevicesConsistent(ResetState(pipeline))
    /\ (pipeline.device = "cpu" /\ forward.n > 0) => forward.attempts = <<"primary">>

\* a CPU-only instance whose forward failed with a message the fallback test
\* matches
C38_Witness ==
    /\ pipeline.device = "cpu"
    /\ pipeline.family # "Llama"
    /\ forward.n > 0
    /\ ~forward.ok
    /\ forward.error # None
    /\ "shape mismatch" \in forward.error[1]

\* C39: when the CPU retry inside execute_with_fallback fails itself, the
\* error is returned and try_primary_device stays true, the latch being set
\* only after a successful CPU run; so the next forward tries the primary
\* device again.
C39_FailedRetryKeepsFlag ==
    [][Gemma /\ ForwardRan /\ pipeline.try_primary_device
       /\ forward'.cpu \in {"copy_err", "forward_err"} =>
            /\ ~forward'.ok
            /\ generation'.phase = "failed"
            /\ pipeline'.try_primary_device
            /\ \A primary \in {None} \cup {Some(m) : m \in ErrorMessages} :
                  Head(ExecuteWithFallback(pipeline', primary, "ok").attempts) = "primary"]_vars

\* the primary device failed with a named error and the forward on CPU failed too
C39_Witness ==
    /\ Gemma
    /\ forward.cpu = "forward_err"
    /\ forward.attempts = <<"primary", "cpu">>
    /\ generation.phase = "failed"
    /\ pipeline.try_primary_device

-----------------------------------------------------------------------------
(* Claims on the request metrics                                           *)

RECURSIVE SumOf(_)
SumOf(times) == IF times = <<>> THEN 0 ELSE Head(times) + SumOf(Tail(times))

Smallest(times) == CHOOSE t \in {times[i] : i \in DOMAIN times} :
                      \A i \in DOMAIN times : t <= times[i]
Largest(times) == CHOOSE t \in {times[i] : i \in DOMAIN times} :
                     \A i \in DOMAIN times : t >= times[i]

\* C40: after any sequence of record calls for an endpoint (at least one) its
\* EndpointMetrics has count = number of calls, total_time_ms = sum of the
\* recorded times, min_time_ms = the smallest and max_time_ms = the largest
\* of them, so min_time_ms <= avg_time_ms <= max_time_ms; also when some of
\* the recorded times are 0 ms.
C40_MetricsExact ==
    \A path \in Paths :
       recorded[path] # <<>> =>
          /\ endpoints[path] # None
          /\ LET m == endpoints[path][1]
             IN /\ m.count = Len(recorded[path])
                /\ m.total_time_ms = SumOf(recorded[path])
                /\ m.min_time_ms = Smallest(recorded[path])
                /\ m.max_time_ms = Largest(recorded[path])
                /\ m.min_time_ms * m.count <= m.total_time_ms
                /\ m.total_time_ms <= m.max_time_ms * m.count

====
